---- MODULE Spec2Model ----
(***************************************************************************)
(* Global selection capture and toolbar arbitration of ai-ask              *)
(* (src-tauri/src/global_selection.rs, src-tauri/src/selection_toolbar.rs) *)
(*                                                                         *)
(* Actors: the input listener thread (handle_event), the capture task it   *)
(* spawns, the hotkey task (trigger_toolbar_from_hotkey), the hide tasks   *)
(* (schedule_hide_toolbar / hide_toolbar_internal), the delayed reveal     *)
(* tasks of show_toolbar_internal, and the command surface.                *)
(* A critical section of a std::sync::Mutex is one atomic action.          *)
(***************************************************************************)
EXTENDS Integers, Sequences, FiniteSets, TLC

\* ------------------------------------------------------------------------
\* Option<T>: None is the empty set, Some(x) the singleton
\* ------------------------------------------------------------------------
None == {}
Some(x) == {x}
Unwrap(o) == CHOOSE x \in o : TRUE

Max(a, b) == IF a >= b THEN a ELSE b
Min(a, b) == IF a <= b THEN a ELSE b

\* ------------------------------------------------------------------------
\* Program constants
\* ------------------------------------------------------------------------
MIN_TEXT_LENGTH == 2
TRIGGER_DEBOUNCE_MS == 200
CAPTURE_TIMEOUT_MS == 2000
THROTTLE_MS == 120
REVEAL_DELAY_MS == 50
LISTENER_RETRY_DELAY_MS == 2000
TOOLBAR_WIDTH == 80
TOOLBAR_HEIGHT == 35
TOOLBAR_VERTICAL_OFFSET == 10

\* ------------------------------------------------------------------------
\* Bounds of the model
\* ------------------------------------------------------------------------
TickMs == TRIGGER_DEBOUNCE_MS   \* granularity of the clock, milliseconds
MaxNow == 200        \* the clock stops ticking here (a timeout may jump past it)
MaxEvents == 3       \* inputs from the outside: events, hotkeys, commands
MaxHides == 1        \* pending hide tasks (saturating)
MaxAbandoned == 1    \* provider-chain executions abandoned by a timeout

\* ------------------------------------------------------------------------
\* Text: a string is a sequence of one-character strings
\* ------------------------------------------------------------------------
is_whitespace(c) == c \in {" ", "\t", "\n"}

RECURSIVE trim_start(_)
trim_start(s) ==
    IF s = <<>> THEN <<>>
    ELSE IF is_whitespace(Head(s)) THEN trim_start(Tail(s))
    ELSE s

RECURSIVE trim_end(_)
trim_end(s) ==
    IF s = <<>> THEN <<>>
    ELSE IF is_whitespace(s[Len(s)]) THEN trim_end(SubSeq(s, 1, Len(s) - 1))
    ELSE s

trim(s) == trim_end(trim_start(s))

non_whitespace_count(s) == Cardinality({i \in 1..Len(s) : ~is_whitespace(s[i])})

UpperCase == << "A", "B", "C", "D", "E", "F", "G", "H", "I", "J", "K", "L", "M",
               "N", "O", "P", "Q", "R", "S", "T", "U", "V", "W", "X", "Y", "Z" >>
LowerCase == << "a", "b", "c", "d", "e", "f", "g", "h", "i", "j", "k", "l", "m",
               "n", "o", "p", "q", "r", "s", "t", "u", "v", "w", "x", "y", "z" >>

to_lowercase_char(c) ==
    IF \E i \in 1..Len(UpperCase) : UpperCase[i] = c
    THEN LowerCase[CHOOSE i \in 1..Len(UpperCase) : UpperCase[i] = c]
    ELSE c

to_lowercase(s) == [i \in 1..Len(s) |-> to_lowercase_char(s[i])]

\* str::contains / str::ends_with
contains(s, p) == \E i \in 0..(Len(s) - Len(p)) : SubSeq(s, i + 1, i + Len(p)) = p
ends_with(s, p) == Len(p) <= Len(s) /\ SubSeq(s, Len(s) - Len(p) + 1, Len(s)) = p

normalize_selection_untrimmed(text) ==
    IF non_whitespace_count(text) < MIN_TEXT_LENGTH THEN None ELSE Some(text)

\* normalize_selection: trimmed text, or None below MIN_TEXT_LENGTH non-blank chars
normalize_selection(text) ==
    LET trimmed == trim(text)
    IN  IF non_whitespace_count(trimmed) < MIN_TEXT_LENGTH THEN None ELSE Some(trimmed)

read_clipboard_text_lenient(clip) ==
    IF clip = None THEN None
    ELSE LET trimmed == trim(Unwrap(clip))
         IN  IF trimmed = <<>> THEN None ELSE Some(trimmed)

\* read_clipboard_text on a clipboard holding `clip` (None: access or read failed)
read_clipboard_text(clip) ==
    IF clip = None THEN None
    ELSE LET trimmed == trim(Unwrap(clip))
         IN  IF trimmed = <<>> THEN None
             ELSE IF non_whitespace_count(trimmed) < MIN_TEXT_LENGTH THEN None
             ELSE Some(trimmed)

\* ------------------------------------------------------------------------
\* Inputs of the environment
\* ------------------------------------------------------------------------
\* what a provider reads from the foreground application (None: no selection)
RawSelections == { None, Some(<<"a", "b">>), Some(<<" ", "c", "d">>), Some(<<"a", " ">>) }
\* provider lists of the platforms: Windows has two providers, macOS one
NumProviders == 2
ProviderRuns == [1..NumProviders -> RawSelections]
Clipboards == { None, Some(<<"c", "d", " ">>), Some(<<" ">>) }
CursorPositions == { <<100, 200>> }
\* window.scale_factor(), counted in units of 1/ScaleDen: ScaleDen is 1.0
ScaleDen == 4
ScaleFactors == { ScaleDen }
\* foreground applications and the identifiers resolve_active_app_identifiers reports
Apps == { "host", "notepad" }
AppIdentifiers(a) ==
    CASE a = "host" -> { <<"a", "i">> }
      [] a = "notepad" -> { <<"e", "d", "i", "t">>, <<"n", "p", ".", "x">> }
\* arguments of set_selection_toolbar_ignored_apps
IgnoredAppLists == { <<>>, << <<" ", "N", "P">>, <<" ">> >> }
\* arguments of set_selection_toolbar_temporary_disabled_until
Deadlines == { None, Some(200) }

VARIABLES
    now,            \* the clock (Instant::now / SystemTime::now), milliseconds
    monitor,        \* MonitorState
    toolbar,        \* ToolbarState
    foreground,     \* the application owning the foreground window
    listener,       \* position of the listener thread inside handle_event
    capture,        \* the capture task spawned by handle_event
    hotkey,         \* the task of trigger_toolbar_from_hotkey
    abandoned,      \* provider-chain executions abandoned by a timeout, still running
    hide_tasks,     \* hide_toolbar_internal calls requested and not yet run
    window,         \* the "selection-toolbar" window
    reveals,        \* delayed reveal tasks spawned by show_toolbar_internal
    events,         \* number of outside inputs so far
    last_dispatch_at, \* history: time of the last capture task spawned by handle_event
    user_deadline,  \* history: last deadline written by the command surface
    call            \* a call of one function on its own: arguments, position, result

vars == << now, monitor, toolbar, foreground, listener, capture, hotkey, abandoned,
           hide_tasks, window, reveals, events, last_dispatch_at, user_deadline,
           call >>

\* ------------------------------------------------------------------------
\* ToolbarState methods
\* ------------------------------------------------------------------------
is_temporarily_disabled_strict(state, t) ==
    IF state.temporary_disabled_until # None
    THEN IF t > Unwrap(state.temporary_disabled_until)
         THEN [result |-> FALSE, state |-> [state EXCEPT !.temporary_disabled_until = None]]
         ELSE [result |-> TRUE, state |-> state]
    ELSE [result |-> FALSE, state |-> state]

\* is_temporarily_disabled(&mut self): the answer and the state it leaves
is_temporarily_disabled(state, t) ==
    IF state.temporary_disabled_until # None
    THEN IF t >= Unwrap(state.temporary_disabled_until)
         THEN [result |-> FALSE, state |-> [state EXCEPT !.temporary_disabled_until = None]]
         ELSE [result |-> TRUE, state |-> state]
    ELSE [result |-> FALSE, state |-> state]

set_ignored_apps_keeps_empty(apps) ==
    [i \in 1..Len(apps) |-> to_lowercase(trim(apps[i]))]

\* set_ignored_apps: trim, lowercase, drop the empty ones
set_ignored_apps(apps) ==
    SelectSeq([i \in 1..Len(apps) |-> to_lowercase(trim(apps[i]))], LAMBDA app : app # <<>>)

should_ignore_app_suffix_only(state, identifier) ==
    IF state.ignored_apps = <<>> THEN FALSE
    ELSE LET candidate == to_lowercase(trim(identifier))
         IN  IF candidate = <<>> THEN FALSE
             ELSE \E i \in 1..Len(state.ignored_apps) :
                    LET pattern == state.ignored_apps[i]
                    IN  \/ candidate = pattern
                        \/ ends_with(candidate, pattern)

should_ignore_app(state, identifier) ==
    IF state.ignored_apps = <<>> THEN FALSE
    ELSE LET candidate == to_lowercase(trim(identifier))
         IN  IF candidate = <<>> THEN FALSE
             ELSE \E i \in 1..Len(state.ignored_apps) :
                    LET pattern == state.ignored_apps[i]
                    IN  \/ candidate = pattern
                        \/ ends_with(candidate, pattern)
                        \/ contains(candidate, pattern)

resolve_active_app_identifiers == AppIdentifiers(foreground)

main_window_focused_unchecked == FALSE

\* the host application's main window is focused
main_window_focused == foreground = "host"

schedule_hide_dropped(h) == h

\* schedule_hide_toolbar / an inline hide_toolbar_internal call: one more pending hide
schedule_hide(h) == Min(h + 1, MaxHides)

\* capture_with_providers on the raw selections the providers would read, in
\* list order: the first Some wins; `calls` counts the providers that ran
RECURSIVE capture_from(_, _)
capture_from(run, i) ==
    IF i > Len(run) THEN [result |-> None, calls |-> Len(run)]
    ELSE LET text == IF run[i] = None THEN None ELSE normalize_selection(Unwrap(run[i]))
         IN  IF text # None THEN [result |-> text, calls |-> i]
             ELSE capture_from(run, i + 1)

capture_with_providers(run) == capture_from(run, 1)

\* capture_text_for_hotkey: the provider chain, then the clipboard
capture_text_for_hotkey(run, clip) ==
    LET text == capture_with_providers(run).result
    IN  IF text # None THEN text ELSE read_clipboard_text(clip)

\* what the timeout-wrapped worker of the capture task can hand back: the result
\* of the provider chain, or None for a worker that panicked
WorkerOutcomes == {None} \cup {capture_with_providers(run).result : run \in ProviderRuns}

\* ... and the worker of the hotkey task
HotkeyWorkerOutcomes ==
    {None} \cup {capture_text_for_hotkey(run, clip) : run \in ProviderRuns, clip \in Clipboards}

show_gate_no_throttle(state, text, identifiers, t) ==
    LET trimmed_text == trim(text)
        checked == is_temporarily_disabled(state, t)
        after == checked.state
    IN  IF trimmed_text = <<>> THEN [pass |-> FALSE, state |-> state]
        ELSE IF ~state.enabled THEN [pass |-> FALSE, state |-> state]
        ELSE IF checked.result THEN [pass |-> FALSE, state |-> after]
        ELSE IF \E identifier \in identifiers : should_ignore_app(after, identifier)
             THEN [pass |-> FALSE, state |-> after]
        ELSE [pass |-> TRUE,
              state |-> [after EXCEPT !.last_shown_at = Some(t),
                                      !.last_text = Some(trimmed_text)]]

show_gate_records_first(state, text, identifiers, t) ==
    LET trimmed_text == trim(text)
        checked == is_temporarily_disabled(state, t)
        recorded == [checked.state EXCEPT !.last_shown_at = Some(t),
                                          !.last_text = Some(trimmed_text)]
    IN  IF trimmed_text = <<>> THEN [pass |-> FALSE, state |-> state]
        ELSE IF ~state.enabled THEN [pass |-> FALSE, state |-> state]
        ELSE IF checked.result THEN [pass |-> FALSE, state |-> checked.state]
        ELSE IF \E identifier \in identifiers : should_ignore_app(recorded, identifier)
             THEN [pass |-> FALSE, state |-> recorded]
        ELSE [pass |-> TRUE, state |-> recorded]

\* the gates of show_toolbar_internal, evaluated under the ToolbarState lock
show_gate(state, text, identifiers, t) ==
    LET trimmed_text == trim(text)
        checked == is_temporarily_disabled(state, t)
        after == checked.state
        throttled ==
            /\ after.last_shown_at # None
            /\ t - Unwrap(after.last_shown_at) < THROTTLE_MS
            /\ after.last_text # None
            /\ Unwrap(after.last_text) = trimmed_text
    IN  IF trimmed_text = <<>> THEN [pass |-> FALSE, state |-> state]
        ELSE IF ~state.enabled THEN [pass |-> FALSE, state |-> state]
        ELSE IF checked.result THEN [pass |-> FALSE, state |-> after]
        ELSE IF \E identifier \in identifiers : should_ignore_app(after, identifier)
             THEN [pass |-> FALSE, state |-> after]
        ELSE IF throttled THEN [pass |-> FALSE, state |-> after]
        ELSE [pass |-> TRUE,
              state |-> [after EXCEPT !.last_shown_at = Some(t),
                                      !.last_text = Some(trimmed_text)]]

\* the window part of show_toolbar_internal: position, hide, delayed reveal
\* f64::round on the fraction num/den: to the nearest integer, halves away
\* from zero
round(num, den) ==
    IF num >= 0 THEN (2 * num + den) \div (2 * den)
    ELSE -((2 * (-num) + den) \div (2 * den))

toolbar_position_unclamped(position, scale_factor) ==
    << round(2 * ScaleDen * position[1] - TOOLBAR_WIDTH * scale_factor, 2 * ScaleDen),
       round(ScaleDen * position[2] - TOOLBAR_HEIGHT * scale_factor
                                    - TOOLBAR_VERTICAL_OFFSET * scale_factor, ScaleDen) >>

\* `position` is in pixels, `scale_factor` in units of 1/ScaleDen; the
\* intermediate values are exact fractions, as they are in f64 for these inputs
toolbar_position(position, scale_factor) ==
    LET toolbar_width == TOOLBAR_WIDTH * scale_factor
        toolbar_height == TOOLBAR_HEIGHT * scale_factor
        offset_y == TOOLBAR_VERTICAL_OFFSET * scale_factor
        toolbar_x == Max(0, 2 * ScaleDen * position[1] - toolbar_width)
        toolbar_y == Max(0, ScaleDen * position[2] - toolbar_height - offset_y)
    IN  << round(toolbar_x, 2 * ScaleDen), round(toolbar_y, ScaleDen) >>

show_window(w, position, scale_factor) ==
    [w EXCEPT !.exists = TRUE,
              !.position = toolbar_position(position, scale_factor),
              !.visible = FALSE]

\* the task it spawns: sleep REVEAL_DELAY_MS, emit the trimmed text, show the window
reveal_task(text, t) == [text |-> trim(text), at |-> t]

\* ------------------------------------------------------------------------
\* Initial state: MonitorState::default(), ToolbarState::default()
\* ------------------------------------------------------------------------
\* released_over is not a value the task holds: it records where the pointer
\* was when the release was dispatched, to compare the anchor against
NoCapture == [pc |-> "none", text |-> None, position |-> None, started_at |-> 0,
              shown |-> FALSE, released_over |-> <<0, 0>>]
NoHotkey == [pc |-> "none", text |-> None, position |-> <<0, 0>>, started_at |-> 0,
             original |-> None, temporarily_disabled |-> FALSE,
             pre |-> FALSE, other_write |-> None, shown |-> FALSE]

\* the toolbar window is not created before the first show; last_hide is how
\* the window part of the last hide_toolbar_internal went
NoWindow == [exists |-> FALSE, visible |-> FALSE, position |-> <<0, 0>>, text |-> None,
             last_hide |-> "none"]

\* no function is being run on its own
NoCall == [fn |-> "none"]

Init ==
    /\ now = 0
    /\ monitor = [last_trigger_at |-> None, last_text |-> None,
                  last_mouse_position |-> <<0, 0>>, capture_in_progress |-> FALSE]
    /\ toolbar = [last_shown_at |-> None, last_text |-> None, enabled |-> TRUE,
                  temporary_disabled_until |-> None, ignored_apps |-> <<>>]
    /\ foreground \in Apps
    /\ listener = "idle"
    /\ capture = NoCapture
    /\ hotkey = NoHotkey
    /\ abandoned = 0
    /\ hide_tasks = 0
    /\ window = NoWindow
    /\ reveals = {}
    /\ events = 0
    /\ last_dispatch_at = None
    /\ user_deadline = None
    /\ call = NoCall

\* another thread may be inside a critical section of the mutex right now
MonitorLockContended == capture.pc \in {"dedupe", "ending"}
ToolbarLockContended ==
    \/ capture.pc = "show"
    \/ hotkey.pc \in {"force_save", "gate", "restore"}
    \/ hide_tasks > 0

\* ------------------------------------------------------------------------
\* The clock
\* ------------------------------------------------------------------------
Tick ==
    /\ now + TickMs <= MaxNow
    /\ now' = now + TickMs
    /\ UNCHANGED << monitor, toolbar, foreground, listener, capture, hotkey, abandoned,
                    hide_tasks, window, reveals, events, last_dispatch_at,
                    user_deadline,
                    call >>

\* ------------------------------------------------------------------------
\* handle_event on the listener thread
\* ------------------------------------------------------------------------
\* the listener thread is between two events; `listener` then names how
\* handle_event left the last button release
listener_idle == listener # "gated"

mouse_moved_resets(state, position) ==
    [state EXCEPT !.last_mouse_position = position, !.last_trigger_at = None]

\* the write of a pointer move that got the lock
mouse_moved(state, position) == [state EXCEPT !.last_mouse_position = position]

\* EventType::MouseMove: try_lock, drop the update when the lock is held
MouseMove ==
    /\ listener_idle
    /\ events < MaxEvents
    /\ events' = events + 1
    /\ \E position \in CursorPositions :
        \/ monitor' = mouse_moved(monitor, position)
        \/ MonitorLockContended /\ UNCHANGED monitor
    /\ UNCHANGED << now, toolbar, foreground, listener, capture, hotkey, abandoned,
                    hide_tasks, window, reveals, last_dispatch_at, user_deadline,
                    call >>

\* ButtonRelease(Left), first part: feature switch and own-window check
ReleaseGate ==
    /\ listener_idle
    /\ events < MaxEvents
    /\ events' = events + 1
    /\ \/ /\ ToolbarLockContended              \* try_lock failed: skip this trigger
          /\ listener' = "toolbar_busy"
          /\ UNCHANGED hide_tasks
       \/ /\ ~toolbar.enabled
          /\ hide_tasks' = schedule_hide(hide_tasks)
          /\ listener' = "disabled"
       \/ /\ toolbar.enabled
          /\ main_window_focused
          /\ listener' = "own_window"
          /\ UNCHANGED hide_tasks
       \/ /\ toolbar.enabled
          /\ ~main_window_focused
          /\ listener' = "gated"
          /\ UNCHANGED hide_tasks
    /\ UNCHANGED << now, monitor, toolbar, foreground, capture, hotkey, abandoned,
                    window, reveals, last_dispatch_at, user_deadline,
                    call >>

debounced_never(state, t) == FALSE

\* the debounce gate of handle_event
debounced(state, t) ==
    /\ state.last_trigger_at # None
    /\ t - Unwrap(state.last_trigger_at) < TRIGGER_DEBOUNCE_MS

capture_running_unchecked(state) == FALSE

\* the concurrency gate of handle_event
capture_running(state) == state.capture_in_progress

rejected_restamps(state, t) == [state EXCEPT !.last_trigger_at = Some(t)]

\* the MonitorState a release leaves that returns at the debounce or at the
\* guard: the lock guard is dropped with nothing written
rejected(state, t) == state

triggered_unguarded(state, t) == [state EXCEPT !.last_trigger_at = Some(t)]

triggered_unstamped(state, t) == [state EXCEPT !.capture_in_progress = TRUE]

\* the MonitorState a dispatching release leaves
triggered(state, t) ==
    [state EXCEPT !.last_trigger_at = Some(t), !.capture_in_progress = TRUE]

spawn_capture_inline(t) ==
    [NoCapture EXCEPT !.pc = "dedupe", !.started_at = t,
                      !.text = CHOOSE text \in WorkerOutcomes : text # None]

\* tauri::async_runtime::spawn: the new task waits for the worker it started
\* with spawn_blocking, under tokio::time::timeout
spawn_capture(t) == [NoCapture EXCEPT !.pc = "awaiting", !.started_at = t]

\* ButtonRelease(Left), second part: debounce and concurrency guard under one
\* try_lock, then the spawn of the capture task
ReleaseTrigger ==
    /\ listener = "gated"
    /\ \/ /\ MonitorLockContended              \* try_lock failed: skip this trigger
          /\ listener' = "monitor_busy"
          /\ UNCHANGED << monitor, capture, last_dispatch_at >>
       \/ /\ debounced(monitor, now)
          /\ listener' = "debounced"
          /\ monitor' = rejected(monitor, now)
          /\ UNCHANGED << capture, last_dispatch_at >>
       \/ /\ ~debounced(monitor, now)
          /\ capture_running(monitor)
          /\ listener' = "in_progress"
          /\ monitor' = rejected(monitor, now)
          /\ UNCHANGED << capture, last_dispatch_at >>
       \/ /\ ~debounced(monitor, now)
          /\ ~capture_running(monitor)
          /\ listener' = "dispatched"
          /\ monitor' = triggered(monitor, now)
          /\ capture' = [spawn_capture(now) EXCEPT
                             !.released_over = monitor.last_mouse_position]
          /\ last_dispatch_at' = Some(now)
    /\ UNCHANGED << now, toolbar, foreground, hotkey, abandoned, hide_tasks, window,
                    reveals, events, user_deadline,
                    call >>

\* ------------------------------------------------------------------------
\* The capture task spawned by handle_event
\* ------------------------------------------------------------------------
\* what the task does with the outcome of the timeout-wrapped worker
capture_outcome(task, selected_text) ==
    IF selected_text = None
    THEN [task EXCEPT !.pc = "ending"]
    ELSE [task EXCEPT !.pc = "dedupe", !.text = selected_text]

hide_on_failure_skipped(selected_text, h) == h

\* no text: schedule_hide_toolbar before the task returns
hide_on_failure(selected_text, h) ==
    IF selected_text = None THEN schedule_hide(h) ELSE h

\* the worker returns (Ok(Ok(text))) or panics (Ok(Err)) before the timeout
CaptureReturns ==
    /\ capture.pc = "awaiting"
    /\ \E selected_text \in WorkerOutcomes :
            /\ capture' = capture_outcome(capture, selected_text)
            /\ hide_tasks' = hide_on_failure(selected_text, hide_tasks)
    /\ UNCHANGED << now, monitor, toolbar, foreground, listener, hotkey, abandoned,
                    window, reveals, events, last_dispatch_at, user_deadline,
                    call >>

\* tokio::time::timeout fires: the worker keeps running, the task goes on with None
CaptureTimeout ==
    /\ capture.pc = "awaiting"
    /\ abandoned < MaxAbandoned
    /\ now' = Max(now, capture.started_at + CAPTURE_TIMEOUT_MS)
    /\ abandoned' = abandoned + 1
    /\ capture' = capture_outcome(capture, None)
    /\ hide_tasks' = hide_on_failure(None, hide_tasks)
    /\ UNCHANGED << monitor, toolbar, foreground, listener, hotkey, window, reveals,
                    events, last_dispatch_at, user_deadline,
                    call >>

discarded_resets(state, result) == [state EXCEPT !.capture_in_progress = FALSE]

\* the timeout dropped the JoinHandle: the worker's return value has no
\* reader and MonitorState stays as it is
discarded(state, result) == state

\* an abandoned provider-chain execution returns; nobody reads its result
AbandonedReturns ==
    /\ abandoned > 0
    /\ abandoned' = abandoned - 1
    /\ \E result \in WorkerOutcomes : monitor' = discarded(monitor, result)
    /\ UNCHANGED << now, toolbar, foreground, listener, capture, hotkey,
                    hide_tasks, window, reveals, events, last_dispatch_at,
                    user_deadline,
                    call >>

is_duplicate_never(state, selected_text) == FALSE

is_duplicate_inverted(state, selected_text) ==
    state.last_text # None /\ Unwrap(state.last_text) # selected_text

\* the dedupe against MonitorState.last_text
is_duplicate(state, selected_text) ==
    state.last_text # None /\ Unwrap(state.last_text) = selected_text

capture_anchor_at_release(state, released_over) == released_over

\* the CursorPosition built from MonitorState under the dedupe's lock
capture_anchor(state, released_over) == state.last_mouse_position

CaptureDedupe ==
    /\ capture.pc = "dedupe"
    /\ IF is_duplicate(monitor, Unwrap(capture.text))
       THEN /\ capture' = [capture EXCEPT !.pc = "ending"]
            /\ UNCHANGED monitor
       ELSE /\ monitor' = [monitor EXCEPT !.last_text = capture.text]
            /\ capture' = [capture EXCEPT !.pc = "show",
                                          !.position =
                                              Some(capture_anchor(monitor,
                                                                  capture.released_over))]
    /\ UNCHANGED << now, toolbar, foreground, listener, hotkey, abandoned, hide_tasks,
                    window, reveals, events, last_dispatch_at, user_deadline,
                    call >>

\* show_selection_toolbar_with_manager: show_toolbar_internal, its gates and,
\* when they pass, the window part with the spawn of the delayed reveal
CaptureShow ==
    /\ capture.pc = "show"
    /\ LET gate == show_gate(toolbar, Unwrap(capture.text),
                             resolve_active_app_identifiers, now)
       IN  /\ toolbar' = gate.state
           /\ IF gate.pass
              THEN /\ \E scale_factor \in ScaleFactors :
                        window' = show_window(window, Unwrap(capture.position),
                                              scale_factor)
                   /\ reveals' = reveals \cup {reveal_task(Unwrap(capture.text), now)}
              ELSE UNCHANGED << window, reveals >>
           /\ capture' = [capture EXCEPT !.pc = "ending", !.shown = gate.pass]
    /\ UNCHANGED << now, monitor, foreground, listener, hotkey, abandoned, hide_tasks,
                    events, last_dispatch_at, user_deadline,
                    call >>

reset_guard_forgotten(state) == state

\* CaptureResetGuard::drop at the end of the task
reset_guard(state) == [state EXCEPT !.capture_in_progress = FALSE]

CaptureEnd ==
    /\ capture.pc = "ending"
    /\ monitor' = reset_guard(monitor)
    /\ capture' = NoCapture
    /\ UNCHANGED << now, toolbar, foreground, listener, hotkey, abandoned, hide_tasks,
                    window, reveals, events, last_dispatch_at, user_deadline,
                    call >>

\* ------------------------------------------------------------------------
\* hide_toolbar_internal and the delayed reveal
\* ------------------------------------------------------------------------
hide_state_keeps_text(state) == [state EXCEPT !.last_shown_at = None]

hide_state(state) == [state EXCEPT !.last_text = None, !.last_shown_at = None]

\* the window part: no window yet, window.hide() fails (stale handle), or hides
hide_window(w, hide_ok) ==
    IF ~w.exists THEN [w EXCEPT !.last_hide = "no_window"]
    ELSE IF ~hide_ok THEN [w EXCEPT !.last_hide = "failed"]
    ELSE [w EXCEPT !.visible = FALSE, !.last_hide = "hidden"]

HideToolbar ==
    /\ hide_tasks > 0
    /\ hide_tasks' = hide_tasks - 1
    /\ toolbar' = hide_state(toolbar)
    /\ \E hide_ok \in BOOLEAN : window' = hide_window(window, hide_ok)
    /\ UNCHANGED << now, monitor, foreground, listener, capture, hotkey, abandoned,
                    reveals, events, last_dispatch_at, user_deadline,
                    call >>

\* the task spawned at the end of show_toolbar_internal: sleep, emit, show
Reveal ==
    /\ \E r \in reveals :
        /\ now - r.at >= REVEAL_DELAY_MS
        /\ reveals' = reveals \ {r}
        /\ window' = [window EXCEPT !.text = Some(r.text), !.visible = TRUE]
    /\ UNCHANGED << now, monitor, toolbar, foreground, listener, capture, hotkey,
                    abandoned, hide_tasks, events, last_dispatch_at,
                    user_deadline,
                    call >>

\* ------------------------------------------------------------------------
\* trigger_toolbar_from_hotkey
\* ------------------------------------------------------------------------
\* the flags read under the ToolbarState lock, and the state the read leaves
hotkey_flags(state, identifiers, t) ==
    LET enabled == state.enabled
        checked == IF enabled THEN is_temporarily_disabled(state, t)
                   ELSE [result |-> FALSE, state |-> state]
        temporarily_disabled == checked.result
        ignore_active_app ==
            IF enabled /\ ~temporarily_disabled
            THEN \E identifier \in identifiers : should_ignore_app(checked.state, identifier)
            ELSE FALSE
    IN  [feature_enabled |-> enabled, temporarily_disabled |-> temporarily_disabled,
         ignore_active_app |-> ignore_active_app, state |-> checked.state]

\* the foreground application matches an ignored pattern
foreground_ignored ==
    \E identifier \in resolve_active_app_identifiers : should_ignore_app(toolbar, identifier)

HotkeyTrigger ==
    /\ hotkey.pc = "none"
    /\ events < MaxEvents
    /\ events' = events + 1
    /\ LET flags == hotkey_flags(toolbar, resolve_active_app_identifiers, now)
       IN  /\ toolbar' = flags.state
           /\ IF ~flags.feature_enabled \/ flags.ignore_active_app
              THEN /\ hide_tasks' = schedule_hide(hide_tasks)
                   /\ UNCHANGED hotkey
              ELSE /\ hotkey' = [NoHotkey EXCEPT
                                   !.pc = "awaiting",
                                   !.started_at = now,
                                   !.temporarily_disabled = flags.temporarily_disabled,
                                   !.pre = /\ toolbar.enabled
                                           /\ ~foreground_ignored
                                           /\ toolbar.temporary_disabled_until # None
                                           /\ now < Unwrap(toolbar.temporary_disabled_until)]
                   /\ UNCHANGED hide_tasks
    /\ UNCHANGED << now, monitor, foreground, listener, capture, abandoned, window,
                    reveals, last_dispatch_at, user_deadline,
                    call >>

hotkey_anchor_cached(cursor, state) ==
    IF cursor = None THEN Some(state.last_mouse_position) ELSE cursor

\* the anchor of the hotkey path: what platform_cursor_position returned
\* (None: the query failed); the MonitorState is not looked at
hotkey_anchor(cursor, state) == cursor

\* the worker of the hotkey task returns or panics before the timeout; with a
\* text the task asks platform_cursor_position for the anchor
HotkeyCaptureReturns ==
    /\ hotkey.pc = "awaiting"
    /\ \E selected_text \in HotkeyWorkerOutcomes,
          cursor \in {None} \cup {Some(position) : position \in CursorPositions} :
            LET position == hotkey_anchor(cursor, monitor)
            IN  IF selected_text = None \/ position = None
                THEN /\ hotkey' = NoHotkey
                     /\ hide_tasks' = schedule_hide(hide_tasks)
                ELSE /\ hotkey' = [hotkey EXCEPT !.pc = "force_save",
                                                 !.text = selected_text,
                                                 !.position = Unwrap(position)]
                     /\ UNCHANGED hide_tasks
    /\ UNCHANGED << now, monitor, toolbar, foreground, listener, capture, abandoned,
                    window, reveals, events, last_dispatch_at, user_deadline,
                    call >>

HotkeyTimeout ==
    /\ hotkey.pc = "awaiting"
    /\ abandoned < MaxAbandoned
    /\ now' = Max(now, hotkey.started_at + CAPTURE_TIMEOUT_MS)
    /\ abandoned' = abandoned + 1
    /\ hotkey' = NoHotkey
    /\ hide_tasks' = schedule_hide(hide_tasks)
    /\ UNCHANGED << monitor, toolbar, foreground, listener, capture, window, reveals,
                    events, last_dispatch_at, user_deadline,
                    call >>

force_clear_skipped(state) == state

\* show_selection_toolbar_force_with_manager, steps 1 and 2: save and clear
force_clear(state) ==
    IF state.temporary_disabled_until # None
    THEN [state EXCEPT !.temporary_disabled_until = None]
    ELSE state

HotkeyForceSave ==
    /\ hotkey.pc = "force_save"
    /\ hotkey' = [hotkey EXCEPT !.pc = "gate",
                                !.original = toolbar.temporary_disabled_until,
                                !.other_write = None]
    /\ toolbar' = force_clear(toolbar)
    /\ UNCHANGED << now, monitor, foreground, listener, capture, abandoned, hide_tasks,
                    window, reveals, events, last_dispatch_at, user_deadline,
                    call >>

\* step 3: show_toolbar_internal, gates and window part
HotkeyShow ==
    /\ hotkey.pc = "gate"
    /\ LET gate == show_gate(toolbar, Unwrap(hotkey.text),
                             resolve_active_app_identifiers, now)
       IN  /\ toolbar' = gate.state
           /\ hotkey' = [hotkey EXCEPT !.pc = "restore", !.shown = gate.pass]
           /\ IF gate.pass
              THEN /\ \E scale_factor \in ScaleFactors :
                        window' = show_window(window, hotkey.position, scale_factor)
                   /\ reveals' = reveals \cup {reveal_task(Unwrap(hotkey.text), now)}
              ELSE UNCHANGED << window, reveals >>
    /\ UNCHANGED << now, monitor, foreground, listener, capture, abandoned, hide_tasks,
                    events, last_dispatch_at, user_deadline,
                    call >>

\* step 4: put the saved deadline back when the field is still empty
force_restore(state, original_disable_until) ==
    IF original_disable_until # None /\ state.temporary_disabled_until = None
    THEN [state EXCEPT !.temporary_disabled_until = original_disable_until]
    ELSE state

HotkeyForceRestore ==
    /\ hotkey.pc = "restore"
    /\ toolbar' = force_restore(toolbar, hotkey.original)
    /\ hotkey' = NoHotkey
    /\ UNCHANGED << now, monitor, foreground, listener, capture, abandoned, hide_tasks,
                    window, reveals, events, last_dispatch_at, user_deadline,
                    call >>

\* ------------------------------------------------------------------------
\* The command surface and the desktop
\* ------------------------------------------------------------------------
SetEnabled ==
    /\ events < MaxEvents
    /\ events' = events + 1
    /\ \E enabled \in BOOLEAN :
        /\ toolbar' = [toolbar EXCEPT !.enabled = enabled]
        /\ hide_tasks' = IF ~enabled THEN schedule_hide(hide_tasks) ELSE hide_tasks
    /\ UNCHANGED << now, monitor, foreground, listener, capture, hotkey, abandoned,
                    window, reveals, last_dispatch_at, user_deadline,
                    call >>

SetIgnoredApps ==
    /\ events < MaxEvents
    /\ events' = events + 1
    /\ \E apps \in IgnoredAppLists :
        toolbar' = [toolbar EXCEPT !.ignored_apps = set_ignored_apps(apps)]
    /\ UNCHANGED << now, monitor, foreground, listener, capture, hotkey, abandoned,
                    hide_tasks, window, reveals, last_dispatch_at, user_deadline,
                    call >>

\* a forced show is between its save and its restore
force_in_progress == hotkey.pc \in {"gate", "restore"}

SetTemporaryDisabledUntil ==
    /\ events < MaxEvents
    /\ events' = events + 1
    /\ \E until \in Deadlines :
        /\ toolbar' = [toolbar EXCEPT !.temporary_disabled_until = until]
        /\ hide_tasks' = IF until # None THEN schedule_hide(hide_tasks) ELSE hide_tasks
        /\ user_deadline' = until
        /\ hotkey' = IF force_in_progress
                     THEN [hotkey EXCEPT !.other_write = Some(until)]
                     ELSE hotkey
    /\ UNCHANGED << now, monitor, foreground, listener, capture, abandoned, window,
                    reveals, last_dispatch_at,
                    call >>

GetState ==
    /\ events < MaxEvents
    /\ events' = events + 1
    /\ toolbar' = is_temporarily_disabled(toolbar, now).state
    /\ UNCHANGED << now, monitor, foreground, listener, capture, hotkey, abandoned,
                    hide_tasks, window, reveals, last_dispatch_at, user_deadline,
                    call >>

HideCommand ==
    /\ events < MaxEvents
    /\ events' = events + 1
    /\ hide_tasks' = schedule_hide(hide_tasks)
    /\ UNCHANGED << now, monitor, toolbar, foreground, listener, capture, hotkey,
                    abandoned, window, reveals, last_dispatch_at, user_deadline,
                    call >>

FocusChange ==
    /\ events < MaxEvents
    /\ events' = events + 1
    /\ \E app \in Apps \ {foreground} : foreground' = app
    /\ UNCHANGED << now, monitor, toolbar, listener, capture, hotkey, abandoned,
                    hide_tasks, window, reveals, last_dispatch_at, user_deadline,
                    call >>

\* ------------------------------------------------------------------------
\* Specification
\* ------------------------------------------------------------------------
CaptureStep ==
    \/ CaptureReturns
    \/ CaptureTimeout
    \/ CaptureDedupe
    \/ CaptureShow
    \/ CaptureEnd

Next ==
    \/ Tick
    \/ MouseMove
    \/ ReleaseGate
    \/ ReleaseTrigger
    \/ CaptureReturns
    \/ CaptureTimeout
    \/ AbandonedReturns
    \/ CaptureDedupe
    \/ CaptureShow
    \/ CaptureEnd
    \/ HideToolbar
    \/ Reveal
    \/ HotkeyTrigger
    \/ HotkeyCaptureReturns
    \/ HotkeyTimeout
    \/ HotkeyForceSave
    \/ HotkeyShow
    \/ HotkeyForceRestore
    \/ SetEnabled
    \/ SetIgnoredApps
    \/ SetTemporaryDisabledUntil
    \/ GetState
    \/ HideCommand
    \/ FocusChange

Spec == Init /\ [][Next]_vars

\* the listener, its capture task and what acts on them, without the hotkey
MonitorNext ==
    \/ Tick
    \/ MouseMove
    \/ ReleaseGate
    \/ ReleaseTrigger
    \/ CaptureReturns
    \/ CaptureTimeout
    \/ AbandonedReturns
    \/ CaptureDedupe
    \/ CaptureShow
    \/ CaptureEnd
    \/ HideToolbar
    \/ Reveal
    \/ SetEnabled
    \/ SetTemporaryDisabledUntil
    \/ FocusChange

\* the runtime keeps polling a spawned capture task, and the timer of its
\* timeout fires: each step of the task is taken
FairSpec == Init /\ [][MonitorNext]_vars /\ WF_vars(CaptureStep)

\* ------------------------------------------------------------------------
\* Functions run on their own: one call, from its arguments to its result
\* ------------------------------------------------------------------------
MaxProviders == 2    \* longest provider list handed to capture_with_providers

\* GlobalSelectionProvider::capture on what the provider reads
provider_capture(raw) ==
    IF raw = None THEN None ELSE normalize_selection(Unwrap(raw))

ProviderLists == UNION { [1..n -> RawSelections] : n \in 0..MaxProviders }

ProviderCalls ==
    { [fn |-> "capture_with_providers", pc |-> "loop", run |-> run, i |-> 1,
       called |-> <<>>, result |-> None] : run \in ProviderLists }

provider_step_last_wins(c) ==
    LET text == provider_capture(c.run[c.i])
    IN  [c EXCEPT !.called = Append(@, c.i),
                  !.i = @ + 1,
                  !.result = IF text # None THEN text ELSE @]

\* one turn of the loop of capture_with_providers
provider_step(c) ==
    LET text == provider_capture(c.run[c.i])
    IN  IF text # None
        THEN [c EXCEPT !.called = Append(@, c.i), !.pc = "returned", !.result = text]
        ELSE [c EXCEPT !.called = Append(@, c.i), !.i = @ + 1]

ProviderCapture ==
    /\ call.fn = "capture_with_providers"
    /\ call.pc = "loop"
    /\ call.i <= Len(call.run)
    /\ call' = provider_step(call)
    /\ UNCHANGED << now, monitor, toolbar, foreground, listener, capture, hotkey,
                    abandoned, hide_tasks, window, reveals, events, last_dispatch_at,
                    user_deadline >>

\* the list is used up: the function returns what it has
ProvidersExhausted ==
    /\ call.fn = "capture_with_providers"
    /\ call.pc = "loop"
    /\ call.i > Len(call.run)
    /\ call' = [call EXCEPT !.pc = "returned"]
    /\ UNCHANGED << now, monitor, toolbar, foreground, listener, capture, hotkey,
                    abandoned, hide_tasks, window, reveals, events, last_dispatch_at,
                    user_deadline >>

MaxLen == 4          \* longest text handed to normalize_selection
Chars == { " ", "\t", "a", "b" }
Texts == UNION { [1..n -> Chars] : n \in 0..MaxLen }

NormalizeCalls ==
    { [fn |-> "normalize_selection", pc |-> "called", text |-> text, round |-> 1,
       input |-> text, first |-> None, result |-> None] : text \in Texts }

Normalize ==
    /\ call.fn = "normalize_selection"
    /\ call.pc = "called"
    /\ call' = [call EXCEPT !.pc = "returned", !.result = normalize_selection(call.text)]
    /\ UNCHANGED << now, monitor, toolbar, foreground, listener, capture, hotkey,
                    abandoned, hide_tasks, window, reveals, events, last_dispatch_at,
                    user_deadline >>

\* the text it returned is handed to it once more
NormalizeAgain ==
    /\ call.fn = "normalize_selection"
    /\ call.pc = "returned"
    /\ call.round = 1
    /\ call.result # None
    /\ call' = [call EXCEPT !.pc = "called", !.round = 2, !.text = Unwrap(call.result),
                            !.first = call.result, !.result = None]
    /\ UNCHANGED << now, monitor, toolbar, foreground, listener, capture, hotkey,
                    abandoned, hide_tasks, window, reveals, events, last_dispatch_at,
                    user_deadline >>

\* identifiers resolve_active_app_identifiers can report (window class, executable)
IdentifierInputs ==
    { <<"n", "o", "t", "e", "p", "a", "d", ".", "e", "x", "e">>,
      <<"n", "o", "t", "e", "p", "a", "d", "p", "l", "u", "s", "p", "l", "u", "s", ".", "e", "x", "e">>,
      <<" ", "N", "o", "t", "e", "P", "a", "d", ".", "E", "X", "E", " ">>,
      <<"x", "n", "o", "t", "e", "p", "a", "d">>,
      <<"n", "o", "t", "e">>,
      <<>>,
      <<" ">>,
      <<"c", "a", "l", "c", ".", "e", "x", "e">> }

\* lists handed to set_selection_toolbar_ignored_apps
IgnoredAppInputs ==
    { <<>>,
      << <<"n", "o", "t", "e", "p", "a", "d">> >>,
      << <<" ", "N", "o", "t", "e", "P", "a", "d", " ">> >>,
      << <<>>, <<" ">> >>,
      << <<"c", "a", "l", "c">>, <<"p", "a", "d", ".", "e", "x", "e">> >>,
      << <<"n", "o", "t", "e", "p", "a", "d", ".", "e", "x", "e">> >> }

IgnoreCalls ==
    { [fn |-> "should_ignore_app", pc |-> "called", apps |-> apps,
       state |-> [ignored_apps |-> <<>>], identifier |-> identifier, result |-> FALSE] :
      apps \in IgnoredAppInputs, identifier \in IdentifierInputs }

\* ToolbarState::set_ignored_apps stores the list
StoreIgnoredApps ==
    /\ call.fn = "should_ignore_app"
    /\ call.pc = "called"
    /\ call' = [call EXCEPT !.pc = "stored",
                            !.state = [ignored_apps |-> set_ignored_apps(call.apps)]]
    /\ UNCHANGED << now, monitor, toolbar, foreground, listener, capture, hotkey,
                    abandoned, hide_tasks, window, reveals, events, last_dispatch_at,
                    user_deadline >>

ShouldIgnoreApp ==
    /\ call.fn = "should_ignore_app"
    /\ call.pc = "stored"
    /\ call' = [call EXCEPT !.pc = "returned",
                            !.result = should_ignore_app(call.state, call.identifier)]
    /\ UNCHANGED << now, monitor, toolbar, foreground, listener, capture, hotkey,
                    abandoned, hide_tasks, window, reveals, events, last_dispatch_at,
                    user_deadline >>

\* cursor positions, on and off the left and upper edge of the screen
PositionInputs == { -30, 0, 39, 40, 41, 100 } \X { -5, 0, 44, 45, 67, 68, 200 }
\* scale factors 1.0, 1.25, 1.5, 1.75 and 2.0
ScaleInputs == { ScaleDen, ScaleDen + 1, ScaleDen + 2, ScaleDen + 3, 2 * ScaleDen }

PositionCalls ==
    { [fn |-> "toolbar_position", pc |-> "called", position |-> position,
       scale_factor |-> scale_factor, result |-> <<0, 0>>] :
      position \in PositionInputs, scale_factor \in ScaleInputs }

\* the position computed by show_toolbar_internal for window.set_position
ToolbarPosition ==
    /\ call.fn = "toolbar_position"
    /\ call.pc = "called"
    /\ call' = [call EXCEPT !.pc = "returned",
                            !.result = toolbar_position(call.position, call.scale_factor)]
    /\ UNCHANGED << now, monitor, toolbar, foreground, listener, capture, hotkey,
                    abandoned, hide_tasks, window, reveals, events, last_dispatch_at,
                    user_deadline >>

\* capture_text_for_hotkey on the selections the providers read and on the
\* content of the clipboard (None: the clipboard cannot be opened or read)
ClipboardInputs == {None} \cup {Some(text) : text \in Texts}

HotkeyCaptureCalls ==
    { [fn |-> "capture_text_for_hotkey", pc |-> "chain", run |-> run, clip |-> clip,
       clipboard_read |-> FALSE, result |-> None] :
        run \in ProviderRuns, clip \in ClipboardInputs }

\* step 1: the provider chain; a text ends the call
chain_step(c) ==
    LET text == capture_with_providers(c.run).result
    IN  IF text # None
        THEN [c EXCEPT !.pc = "returned", !.result = text]
        ELSE [c EXCEPT !.pc = "clipboard"]

\* step 2: the fallback, read_clipboard_text
clipboard_step(c) ==
    [c EXCEPT !.pc = "returned", !.clipboard_read = TRUE,
              !.result = read_clipboard_text(c.clip)]

HotkeyChain ==
    /\ call.fn = "capture_text_for_hotkey"
    /\ call.pc = "chain"
    /\ call' = chain_step(call)
    /\ UNCHANGED << now, monitor, toolbar, foreground, listener, capture, hotkey,
                    abandoned, hide_tasks, window, reveals, events, last_dispatch_at,
                    user_deadline >>

HotkeyClipboard ==
    /\ call.fn = "capture_text_for_hotkey"
    /\ call.pc = "clipboard"
    /\ call' = clipboard_step(call)
    /\ UNCHANGED << now, monitor, toolbar, foreground, listener, capture, hotkey,
                    abandoned, hide_tasks, window, reveals, events, last_dispatch_at,
                    user_deadline >>

\* extract_selection_from_edit of the Win32 edit provider. The control's text
\* is a sequence of UTF-16 code units: "a", "b", a high surrogate "H" and a
\* low surrogate "L". EM_GETSEL reports start and end; WM_GETTEXTLENGTH
\* reports text_length; WM_GETTEXT then copies the text the control holds at
\* that moment (`content`) into a buffer of text_length + 1 units.
MaxUnits == 3        \* longest text of the edit control, and text_length
CodeUnits == { "a", "b", "H", "L" }
EditContents == UNION { [1..n -> CodeUnits] : n \in 0..MaxUnits }

\* String::from_utf16: an error when a surrogate is not part of a pair
RECURSIVE valid_utf16(_)
valid_utf16(units) ==
    IF units = <<>> THEN TRUE
    ELSE IF Head(units) = "H"
    THEN Len(units) >= 2 /\ units[2] = "L" /\ valid_utf16(Tail(Tail(units)))
    ELSE IF Head(units) = "L" THEN FALSE
    ELSE valid_utf16(Tail(units))
from_utf16(units) == IF valid_utf16(units) THEN Some(units) ELSE None

EditCalls ==
    { [fn |-> "extract_selection_from_edit", pc |-> "called",
       start |-> start, end |-> end, text_length |-> text_length,
       content |-> content, copied |-> 0, buffer_len |-> 0,
       slice_start |-> 0, slice_end |-> 0, result |-> None] :
        start \in 0..(MaxUnits + 1), end \in 0..(MaxUnits + 1),
        text_length \in 0..MaxUnits, content \in EditContents }

extract_selection_from_edit_short(c) ==
    IF c.start >= c.end \/ c.text_length = 0 THEN [c EXCEPT !.pc = "returned"]
    ELSE LET copied == Min(Len(c.content), c.text_length)
             slice_end == Min(c.end, copied) - 1
             slice_start == Min(c.start, Max(slice_end, 0))
             sized == [c EXCEPT !.pc = "returned", !.copied = copied,
                                !.buffer_len = c.text_length + 1]
         IN  IF copied = 0 \/ slice_start >= slice_end THEN sized
             ELSE [sized EXCEPT !.slice_start = slice_start,
                                !.slice_end = slice_end,
                                !.result = from_utf16(SubSeq(c.content,
                                               slice_start + 1, slice_end))]

\* the whole function: the early returns, the clamped offsets, the slice
extract_selection_from_edit(c) ==
    IF c.start >= c.end \/ c.text_length = 0 THEN [c EXCEPT !.pc = "returned"]
    ELSE LET copied == Min(Len(c.content), c.text_length)
             slice_end == Min(c.end, copied)
             slice_start == Min(c.start, slice_end)
             sized == [c EXCEPT !.pc = "returned", !.copied = copied,
                                !.buffer_len = c.text_length + 1]
         IN  IF copied = 0 \/ slice_start >= slice_end THEN sized
             ELSE [sized EXCEPT !.slice_start = slice_start,
                                !.slice_end = slice_end,
                                !.result = from_utf16(SubSeq(c.content,
                                               slice_start + 1, slice_end))]

ExtractSelection ==
    /\ call.fn = "extract_selection_from_edit"
    /\ call.pc = "called"
    /\ call' = extract_selection_from_edit(call)
    /\ UNCHANGED << now, monitor, toolbar, foreground, listener, capture, hotkey,
                    abandoned, hide_tasks, window, reveals, events, last_dispatch_at,
                    user_deadline >>

\* the calls a behaviour of CallSpec can start with: one function, one input
Calls(c) ==
    \/ c \in ProviderCalls
    \/ c \in NormalizeCalls
    \/ c \in IgnoreCalls
    \/ c \in PositionCalls
    \/ c \in HotkeyCaptureCalls
    \/ c \in EditCalls

CallInit ==
    /\ now = 0
    /\ monitor = [last_trigger_at |-> None, last_text |-> None,
                  last_mouse_position |-> <<0, 0>>, capture_in_progress |-> FALSE]
    /\ toolbar = [last_shown_at |-> None, last_text |-> None, enabled |-> TRUE,
                  temporary_disabled_until |-> None, ignored_apps |-> <<>>]
    /\ foreground = "host"
    /\ listener = "idle"
    /\ capture = NoCapture
    /\ hotkey = NoHotkey
    /\ abandoned = 0
    /\ hide_tasks = 0
    /\ window = NoWindow
    /\ reveals = {}
    /\ events = 0
    /\ last_dispatch_at = None
    /\ user_deadline = None
    /\ Calls(call)

CallNext ==
    \/ ProviderCapture
    \/ ProvidersExhausted
    \/ Normalize
    \/ NormalizeAgain
    \/ StoreIgnoredApps
    \/ ShouldIgnoreApp
    \/ ToolbarPosition
    \/ HotkeyChain
    \/ HotkeyClipboard
    \/ ExtractSelection

CallSpec == CallInit /\ [][CallNext]_vars

\* ------------------------------------------------------------------------
\* The retrying listener thread (spawn_macos_selection_listener): `call` is
\* the thread inside its loop, handle_event runs as the callback of listen()
\* ------------------------------------------------------------------------
MaxAttempts == 2     \* the attempt counter stops counting here (the loop goes on)
SleepStep == LISTENER_RETRY_DELAY_MS \div 2

ListenerThread ==
    [fn |-> "spawn_macos_selection_listener", pc |-> "starting", attempt |-> 0,
     last_exit |-> "none", slept |-> 0]

listening == call.fn = "spawn_macos_selection_listener" /\ call.pc = "listening"

\* top of the loop: attempt += 1, then listen() installs the event tap
Install ==
    /\ call.fn = "spawn_macos_selection_listener"
    /\ call.pc = "starting"
    /\ call' = [call EXCEPT !.pc = "listening",
                            !.attempt = IF @ < MaxAttempts THEN @ + 1 ELSE @]
    /\ UNCHANGED << now, monitor, toolbar, foreground, listener, capture, hotkey,
                    abandoned, hide_tasks, window, reveals, events, last_dispatch_at,
                    user_deadline >>

\* listen() returns, Ok(()) or Err(error), between two callbacks
ListenReturns ==
    /\ listening
    /\ listener_idle
    /\ \E exit \in {"ok", "err"} :
        call' = [call EXCEPT !.pc = "sleeping", !.last_exit = exit, !.slept = 0]
    /\ UNCHANGED << now, monitor, toolbar, foreground, listener, capture, hotkey,
                    abandoned, hide_tasks, window, reveals, events, last_dispatch_at,
                    user_deadline >>

\* thread::sleep(LISTENER_RETRY_DELAY_MS), the time passing
Sleep ==
    /\ call.fn = "spawn_macos_selection_listener"
    /\ call.pc = "sleeping"
    /\ call.slept < LISTENER_RETRY_DELAY_MS
    /\ call' = [call EXCEPT !.slept = @ + SleepStep]
    /\ UNCHANGED << now, monitor, toolbar, foreground, listener, capture, hotkey,
                    abandoned, hide_tasks, window, reveals, events, last_dispatch_at,
                    user_deadline >>

wake_up_exits(c) == [c EXCEPT !.pc = "exited"]

\* the sleep is over: back to the top of the loop
wake_up(c) == [c EXCEPT !.pc = "starting"]

WakeUp ==
    /\ call.fn = "spawn_macos_selection_listener"
    /\ call.pc = "sleeping"
    /\ call.slept >= LISTENER_RETRY_DELAY_MS
    /\ call' = wake_up(call)
    /\ UNCHANGED << now, monitor, toolbar, foreground, listener, capture, hotkey,
                    abandoned, hide_tasks, window, reveals, events, last_dispatch_at,
                    user_deadline >>

\* spawn_windows_selection_listener: the thread installs the low-level mouse
\* hook once and then pumps messages
WindowsListenerThread ==
    [fn |-> "spawn_windows_selection_listener", pc |-> "hooking", attempt |-> 0,
     last_exit |-> "none", slept |-> 0]

pumping == call.fn = "spawn_windows_selection_listener" /\ call.pc = "pumping"

\* what the thread does with the result of SetWindowsHookExW
hook_installed(c, ok) ==
    IF ok THEN [c EXCEPT !.pc = "pumping", !.attempt = 1]
    ELSE [c EXCEPT !.pc = "ended", !.attempt = 1, !.last_exit = "err"]

InstallHook ==
    /\ call.fn = "spawn_windows_selection_listener"
    /\ call.pc = "hooking"
    /\ \E ok \in BOOLEAN : call' = hook_installed(call, ok)
    /\ UNCHANGED << now, monitor, toolbar, foreground, listener, capture, hotkey,
                    abandoned, hide_tasks, window, reveals, events, last_dispatch_at,
                    user_deadline >>

\* GetMessageW returns 0: the loop ends, the hook is removed, the thread returns
MessageLoopEnds ==
    /\ pumping
    /\ listener_idle
    /\ call' = [call EXCEPT !.pc = "ended", !.last_exit = "ok"]
    /\ UNCHANGED << now, monitor, toolbar, foreground, listener, capture, hotkey,
                    abandoned, hide_tasks, window, reveals, events, last_dispatch_at,
                    user_deadline >>

\* events reach handle_event only while listen() is running, or the hook is
\* installed and its thread pumps messages
ListenerMouseMove == (listening \/ pumping) /\ MouseMove
ListenerReleaseGate == (listening \/ pumping) /\ ReleaseGate

ListenerInit ==
    /\ now = 0
    /\ monitor = [last_trigger_at |-> None, last_text |-> None,
                  last_mouse_position |-> <<0, 0>>, capture_in_progress |-> FALSE]
    /\ toolbar = [last_shown_at |-> None, last_text |-> None, enabled |-> TRUE,
                  temporary_disabled_until |-> None, ignored_apps |-> <<>>]
    /\ foreground \in Apps
    /\ listener = "idle"
    /\ capture = NoCapture
    /\ hotkey = NoHotkey
    /\ abandoned = 0
    /\ hide_tasks = 0
    /\ window = NoWindow
    /\ reveals = {}
    /\ events = 0
    /\ last_dispatch_at = None
    /\ user_deadline = None
    /\ call \in {ListenerThread, WindowsListenerThread}

LoopStep ==
    \/ Install
    \/ Sleep
    \/ WakeUp
    \/ InstallHook

ListenerNext ==
    \/ Install
    \/ ListenReturns
    \/ Sleep
    \/ WakeUp
    \/ InstallHook
    \/ MessageLoopEnds
    \/ ListenerMouseMove
    \/ ListenerReleaseGate
    \/ ReleaseTrigger
    \/ CaptureReturns
    \/ CaptureDedupe
    \/ CaptureShow
    \/ CaptureEnd
    \/ HideToolbar

\* the thread is scheduled: it installs, sleeps and wakes; listen() itself may
\* run for ever
ListenerSpec == ListenerInit /\ [][ListenerNext]_vars /\ WF_vars(LoopStep)

\* ------------------------------------------------------------------------
\* The two mutexes and the threads that take them
\* ------------------------------------------------------------------------
\* Each thread runs a program: the lock operations and await points of one
\* pass through its code, in order. <<"lock", m>> blocks until m is free,
\* <<"try_lock", m>> gives up when m is held, <<"unlock", m>> is the end of
\* the guard's scope, <<"await", "none">> is a suspension point.
Threads == {"listener", "capture", "hotkey", "command", "hide"}
Mutexes == {"monitor", "toolbar"}

\* handle_event: a pointer move, or a left-button release up to the spawn
listener_programs ==
    { << <<"try_lock", "monitor">>, <<"unlock", "monitor">> >>,
      << <<"try_lock", "toolbar">>, <<"unlock", "toolbar">>,
         <<"try_lock", "monitor">>, <<"unlock", "monitor">> >> }

capture_task_programs_nested ==
    { << <<"await", "none">>,
         <<"lock", "monitor">>,
         <<"lock", "toolbar">>, <<"unlock", "toolbar">>,
         <<"unlock", "monitor">>,
         <<"lock", "monitor">>, <<"unlock", "monitor">> >> }

\* the capture task: the timeout-wrapped wait for the worker, then either no
\* text, or the dedupe on MonitorState and show_toolbar_internal on
\* ToolbarState; CaptureResetGuard::drop locks MonitorState at the end
capture_task_programs ==
    { << <<"await", "none">>,
         <<"lock", "monitor">>, <<"unlock", "monitor">> >>,
      << <<"await", "none">>,
         <<"lock", "monitor">>, <<"unlock", "monitor">>,
         <<"lock", "monitor">>, <<"unlock", "monitor">> >>,
      << <<"await", "none">>,
         <<"lock", "monitor">>, <<"unlock", "monitor">>,
         <<"lock", "toolbar">>, <<"unlock", "toolbar">>,
         <<"lock", "monitor">>, <<"unlock", "monitor">> >> }

\* trigger_toolbar_from_hotkey: the flags, the wait for the worker, then the
\* forced show: save and clear, show_toolbar_internal, restore
hotkey_programs ==
    { << <<"lock", "toolbar">>, <<"unlock", "toolbar">> >>,
      << <<"lock", "toolbar">>, <<"unlock", "toolbar">>,
         <<"await", "none">> >>,
      << <<"lock", "toolbar">>, <<"unlock", "toolbar">>,
         <<"await", "none">>,
         <<"lock", "toolbar">>, <<"unlock", "toolbar">>,
         <<"lock", "toolbar">>, <<"unlock", "toolbar">>,
         <<"await", "none">>,
         <<"lock", "toolbar">>, <<"unlock", "toolbar">> >> }

\* the commands: one write or read of ToolbarState, and for a disabling
\* command the awaited hide_toolbar_internal after it
command_programs ==
    { << <<"lock", "toolbar">>, <<"unlock", "toolbar">> >>,
      << <<"lock", "toolbar">>, <<"unlock", "toolbar">>,
         <<"await", "none">>,
         <<"lock", "toolbar">>, <<"unlock", "toolbar">> >> }

\* the task of schedule_hide_toolbar: hide_toolbar_internal
hide_programs ==
    { << <<"await", "none">>,
         <<"lock", "toolbar">>, <<"unlock", "toolbar">> >> }

Programs(t) ==
    CASE t = "listener" -> listener_programs
      [] t = "capture"  -> capture_task_programs
      [] t = "hotkey"   -> hotkey_programs
      [] t = "command"  -> command_programs
      [] t = "hide"     -> hide_programs

IdleThread == [program |-> <<>>, pc |-> 1]

LockState ==
    [fn |-> "locks",
     holder |-> [m \in Mutexes |-> None],
     threads |-> [t \in Threads |-> IdleThread]]

locking == call.fn = "locks"

\* the thread is inside a program / about to run this instruction
running(t) == locking /\ call.threads[t].pc <= Len(call.threads[t].program)
instruction(t) == call.threads[t].program[call.threads[t].pc]
at(t, op) == running(t) /\ instruction(t)[1] = op

\* the call state after thread t has run its instruction
advance(c, t) == [c EXCEPT !.threads[t].pc = @ + 1]
acquire(c, t, m) == [advance(c, t) EXCEPT !.holder[m] = Some(t)]
release(c, t, m) == [advance(c, t) EXCEPT !.holder[m] = None]
give_up(c, t) == [c EXCEPT !.threads[t] = IdleThread]

\* an event arrives, a task is spawned, a command is invoked
Start ==
    /\ locking
    /\ \E t \in Threads :
        /\ ~running(t)
        /\ \E program \in Programs(t) :
            call' = [call EXCEPT !.threads[t] = [program |-> program, pc |-> 1]]
    /\ UNCHANGED << now, monitor, toolbar, foreground, listener, capture, hotkey,
                    abandoned, hide_tasks, window, reveals, events, last_dispatch_at,
                    user_deadline >>

\* Mutex::lock: the thread goes on once the mutex is free
Lock ==
    /\ \E t \in Threads :
        /\ at(t, "lock")
        /\ call.holder[instruction(t)[2]] = None
        /\ call' = acquire(call, t, instruction(t)[2])
    /\ UNCHANGED << now, monitor, toolbar, foreground, listener, capture, hotkey,
                    abandoned, hide_tasks, window, reveals, events, last_dispatch_at,
                    user_deadline >>

\* Mutex::try_lock: Ok when the mutex is free
TryLock ==
    /\ \E t \in Threads :
        /\ at(t, "try_lock")
        /\ call.holder[instruction(t)[2]] = None
        /\ call' = acquire(call, t, instruction(t)[2])
    /\ UNCHANGED << now, monitor, toolbar, foreground, listener, capture, hotkey,
                    abandoned, hide_tasks, window, reveals, events, last_dispatch_at,
                    user_deadline >>

\* Mutex::try_lock: Err when the mutex is held, and handle_event returns
TryLockFails ==
    /\ \E t \in Threads :
        /\ at(t, "try_lock")
        /\ call.holder[instruction(t)[2]] # None
        /\ call' = give_up(call, t)
    /\ UNCHANGED << now, monitor, toolbar, foreground, listener, capture, hotkey,
                    abandoned, hide_tasks, window, reveals, events, last_dispatch_at,
                    user_deadline >>

\* the guard goes out of scope or is dropped
Unlock ==
    /\ \E t \in Threads :
        /\ at(t, "unlock")
        /\ call' = release(call, t, instruction(t)[2])
    /\ UNCHANGED << now, monitor, toolbar, foreground, listener, capture, hotkey,
                    abandoned, hide_tasks, window, reveals, events, last_dispatch_at,
                    user_deadline >>

\* the task is suspended and resumed
Await ==
    /\ \E t \in Threads :
        /\ at(t, "await")
        /\ call' = advance(call, t)
    /\ UNCHANGED << now, monitor, toolbar, foreground, listener, capture, hotkey,
                    abandoned, hide_tasks, window, reveals, events, last_dispatch_at,
                    user_deadline >>

LockInit ==
    /\ now = 0
    /\ monitor = [last_trigger_at |-> None, last_text |-> None,
                  last_mouse_position |-> <<0, 0>>, capture_in_progress |-> FALSE]
    /\ toolbar = [last_shown_at |-> None, last_text |-> None, enabled |-> TRUE,
                  temporary_disabled_until |-> None, ignored_apps |-> <<>>]
    /\ foreground \in Apps
    /\ listener = "idle"
    /\ capture = NoCapture
    /\ hotkey = NoHotkey
    /\ abandoned = 0
    /\ hide_tasks = 0
    /\ window = NoWindow
    /\ reveals = {}
    /\ events = 0
    /\ last_dispatch_at = None
    /\ user_deadline = None
    /\ call = LockState

LockNext ==
    \/ Start
    \/ Lock
    \/ TryLock
    \/ TryLockFails
    \/ Unlock
    \/ Await

LockSpec == LockInit /\ [][LockNext]_vars

\* ------------------------------------------------------------------------
\* The bounded descendant search of the UI Automation provider
\* ------------------------------------------------------------------------
UIA_MAX_DESCENDANT_DEPTH == 3
UIA_MAX_DESCENDANT_NODES == 400

MaxExtra == 1        \* children a wide node has beyond UIA_MAX_DESCENDANT_NODES
MaxTreeDepth == 4    \* levels of the deepest tree searched

\* An accessibility tree: a node is the path of child indices from the start
\* element; a node at depth d has widths[d + 1] children ("full"), or only
\* the nodes on the leftmost path have children ("spine"); `pattern` are the
\* nodes that expose a TextPattern
Wide == UIA_MAX_DESCENDANT_NODES + MaxExtra
Ones(n) == [i \in 1..n |-> 1]
TreeWidths ==
    { <<>>, <<3>>, <<Wide>>, <<3, Wide>>, <<20, 20, 1>>,
      [i \in 1..MaxTreeDepth |-> 2], Ones(MaxTreeDepth) }
TreePatterns ==
    { {}, { <<1>> }, { <<2, 1>> }, { Ones(3) }, { Ones(4) }, { <<Wide>> },
      { Ones(4), <<2, 2, 2>> } }
Trees ==
    { [widths |-> widths, shape |-> shape, pattern |-> pattern] :
        widths \in TreeWidths, shape \in {"full", "spine"},
        pattern \in TreePatterns }

\* walker.GetFirstChildElement / GetNextSiblingElement
child_count(tree, node) ==
    IF Len(node) >= Len(tree.widths) THEN 0
    ELSE IF tree.shape = "spine" /\ node # Ones(Len(node)) THEN 0
    ELSE tree.widths[Len(node) + 1]
first_child(tree, node) ==
    IF child_count(tree, node) > 0 THEN Some(Append(node, 1)) ELSE None
next_sibling(tree, node) ==
    LET parent == SubSeq(node, 1, Len(node) - 1)
        index == node[Len(node)]
    IN  IF index < child_count(tree, parent)
        THEN Some(Append(parent, index + 1)) ELSE None

\* try_text_pattern
try_text_pattern(tree, node) == node \in tree.pattern

\* `tested` counts the calls of try_text_pattern, `deepest` is the depth of
\* the deepest node it was called on
SearchCalls ==
    { [fn |-> "search_descendants_for_text_pattern", pc |-> "pop", tree |-> tree,
       queue |-> << <<>> >>, child |-> None, depth |-> 0, visited |-> 0,
       tested |-> 0, deepest |-> 0, result |-> None] : tree \in Trees }

\* while let Some((current, depth)) = queue.pop_front()
search_pop(c) ==
    IF c.queue = <<>> THEN [c EXCEPT !.pc = "returned"]
    ELSE LET current == Head(c.queue)
             depth == Len(current)
         IN  IF depth >= UIA_MAX_DESCENDANT_DEPTH
             THEN [c EXCEPT !.queue = Tail(@)]
             ELSE [c EXCEPT !.queue = Tail(@),
                            !.depth = depth,
                            !.child = first_child(c.tree, current),
                            !.pc = IF first_child(c.tree, current) = None
                                   THEN "pop" ELSE "child"]

search_visit_one_deeper(c) ==
    LET node == Unwrap(c.child)
        sibling == next_sibling(c.tree, node)
    IN  IF c.visited + 1 > UIA_MAX_DESCENDANT_NODES
        THEN [c EXCEPT !.visited = @ + 1, !.pc = "returned"]
        ELSE IF try_text_pattern(c.tree, node)
        THEN [c EXCEPT !.visited = @ + 1, !.tested = @ + 1,
                       !.deepest = Max(@, Len(node)),
                       !.pc = "returned", !.result = Some(node)]
        ELSE [c EXCEPT !.visited = @ + 1, !.tested = @ + 1,
                       !.deepest = Max(@, Len(node)),
                       !.queue = IF c.depth + 1 <= UIA_MAX_DESCENDANT_DEPTH
                                 THEN Append(@, node) ELSE @,
                       !.child = sibling,
                       !.pc = IF sibling = None THEN "pop" ELSE "child"]

\* while let Some(node) = child: one turn of the sibling loop
search_visit(c) ==
    LET node == Unwrap(c.child)
        sibling == next_sibling(c.tree, node)
    IN  IF c.visited + 1 > UIA_MAX_DESCENDANT_NODES
        THEN [c EXCEPT !.visited = @ + 1, !.pc = "returned"]
        ELSE IF try_text_pattern(c.tree, node)
        THEN [c EXCEPT !.visited = @ + 1, !.tested = @ + 1,
                       !.deepest = Max(@, Len(node)),
                       !.pc = "returned", !.result = Some(node)]
        ELSE [c EXCEPT !.visited = @ + 1, !.tested = @ + 1,
                       !.deepest = Max(@, Len(node)),
                       !.queue = IF c.depth + 1 < UIA_MAX_DESCENDANT_DEPTH
                                 THEN Append(@, node) ELSE @,
                       !.child = sibling,
                       !.pc = IF sibling = None THEN "pop" ELSE "child"]

searching == call.fn = "search_descendants_for_text_pattern"

SearchPop ==
    /\ searching
    /\ call.pc = "pop"
    /\ call' = search_pop(call)
    /\ UNCHANGED << now, monitor, toolbar, foreground, listener, capture, hotkey,
                    abandoned, hide_tasks, window, reveals, events, last_dispatch_at,
                    user_deadline >>

SearchVisit ==
    /\ searching
    /\ call.pc = "child"
    /\ call' = search_visit(call)
    /\ UNCHANGED << now, monitor, toolbar, foreground, listener, capture, hotkey,
                    abandoned, hide_tasks, window, reveals, events, last_dispatch_at,
                    user_deadline >>

SearchInit ==
    /\ now = 0
    /\ monitor = [last_trigger_at |-> None, last_text |-> None,
                  last_mouse_position |-> <<0, 0>>, capture_in_progress |-> FALSE]
    /\ toolbar = [last_shown_at |-> None, last_text |-> None, enabled |-> TRUE,
                  temporary_disabled_until |-> None, ignored_apps |-> <<>>]
    /\ foreground = "notepad"
    /\ listener = "idle"
    /\ capture = NoCapture
    /\ hotkey = NoHotkey
    /\ abandoned = 0
    /\ hide_tasks = 0
    /\ window = NoWindow
    /\ reveals = {}
    /\ events = 0
    /\ last_dispatch_at = None
    /\ user_deadline = None
    /\ call \in SearchCalls

SearchNext ==
    \/ SearchPop
    \/ SearchVisit

\* the worker thread runs the loops of the search to their end
SearchSpec == SearchInit /\ [][SearchNext]_vars /\ WF_vars(SearchNext)

\* ------------------------------------------------------------------------
\* The window part of show_toolbar_internal, call by call
\* ------------------------------------------------------------------------
\* Two shows that have passed the gates and dropped the ToolbarState lock, one
\* from the capture task and one from the hotkey task, run on the runtime's
\* threads. Every window call can fail; the code goes on after each except a
\* failed build. A show's fields: `positioned`, `hid`: how its set_position
\* and its hide went; `emitted`: its emit calls; `slept`: the delay slept;
\* `error`: why its build failed ("label": the label was in use).
Shows == {"mouse", "hotkey"}
ShowTexts == { <<" ", "a", "b">>, <<"c", "d">> }
ShowPositions == { <<100, 200>>, <<300, 400>> }

NewShow(text, position) ==
    [pc |-> "ensure", text |-> text, position |-> position, positioned |-> "no",
     hid |-> "no", emitted |-> 0, slept |-> 0, error |-> "none"]

\* `created`: the windows built so far under the label "selection-toolbar"
ShowCalls ==
    { [fn |-> "show_toolbar_internal",
       window |-> [exists |-> FALSE, visible |-> FALSE, position |-> <<0, 0>>,
                   text |-> None, created |-> 0],
       shows |-> [s \in Shows |-> IF s = "mouse" THEN NewShow(m[1], m[2])
                                  ELSE NewShow(h[1], h[2])]] :
        m \in ShowTexts \X ShowPositions, h \in ShowTexts \X ShowPositions }

showing == call.fn = "show_toolbar_internal"
show_at(s, pc) == showing /\ call.shows[s].pc = pc

\* ensure_toolbar_window: app.get_webview_window("selection-toolbar")
get_webview_window(c, s) ==
    [c EXCEPT !.shows[s].pc = IF c.window.exists THEN "position" ELSE "build"]

\* ensure_toolbar_window: WebviewWindowBuilder::build; the runtime refuses a
\* label that is in use, and `?` ends the show with the error
build(c, s, ok) ==
    IF c.window.exists
    THEN [c EXCEPT !.shows[s].pc = "failed", !.shows[s].error = "label"]
    ELSE IF ~ok
    THEN [c EXCEPT !.shows[s].pc = "failed", !.shows[s].error = "build"]
    ELSE [c EXCEPT !.shows[s].pc = "position",
                   !.window.exists = TRUE,
                   !.window.visible = FALSE,
                   !.window.created = @ + 1]

set_position_skipped(c, s, ok) == [c EXCEPT !.shows[s].pc = "hide"]

\* window.set_position: an error is logged and the show goes on
set_position(c, s, ok) ==
    IF ok
    THEN [c EXCEPT !.shows[s].pc = "hide",
                   !.shows[s].positioned = "set",
                   !.window.position = toolbar_position(c.shows[s].position, ScaleDen)]
    ELSE [c EXCEPT !.shows[s].pc = "hide", !.shows[s].positioned = "failed"]

\* if window.is_visible() { let _ = window.hide(); }
hide_if_visible(c, s, ok) ==
    IF ~c.window.visible
    THEN [c EXCEPT !.shows[s].pc = "spawn", !.shows[s].hid = "not_visible"]
    ELSE IF ok
    THEN [c EXCEPT !.shows[s].pc = "spawn", !.shows[s].hid = "hidden",
                   !.window.visible = FALSE]
    ELSE [c EXCEPT !.shows[s].pc = "spawn", !.shows[s].hid = "failed"]

\* tauri::async_runtime::spawn of the reveal task; the show returns Ok
spawn_reveal(c, s) == [c EXCEPT !.shows[s].pc = "sleeping"]

\* tokio::time::sleep(REVEAL_DELAY_MS)
reveal_sleep(c, s) == [c EXCEPT !.shows[s].pc = "emit", !.shows[s].slept = REVEAL_DELAY_MS]

\* let _ = window_for_emit.emit("toolbar-text-selected", text_payload)
reveal_emit(c, s, ok) ==
    [c EXCEPT !.shows[s].pc = "show",
              !.shows[s].emitted = @ + 1,
              !.window.text = IF ok THEN Some(trim(c.shows[s].text)) ELSE @]

\* let _ = window_for_emit.show()
reveal_show(c, s, ok) ==
    [c EXCEPT !.shows[s].pc = "done",
              !.window.visible = IF ok THEN TRUE ELSE @]

EnsureToolbarWindow ==
    /\ \E s \in Shows :
        /\ show_at(s, "ensure")
        /\ call' = get_webview_window(call, s)
    /\ UNCHANGED << now, monitor, toolbar, foreground, listener, capture, hotkey,
                    abandoned, hide_tasks, window, reveals, events, last_dispatch_at,
                    user_deadline >>

BuildToolbarWindow ==
    /\ \E s \in Shows, ok \in BOOLEAN :
        /\ show_at(s, "build")
        /\ call' = build(call, s, ok)
    /\ UNCHANGED << now, monitor, toolbar, foreground, listener, capture, hotkey,
                    abandoned, hide_tasks, window, reveals, events, last_dispatch_at,
                    user_deadline >>

SetPosition ==
    /\ \E s \in Shows, ok \in BOOLEAN :
        /\ show_at(s, "position")
        /\ call' = set_position(call, s, ok)
    /\ UNCHANGED << now, monitor, toolbar, foreground, listener, capture, hotkey,
                    abandoned, hide_tasks, window, reveals, events, last_dispatch_at,
                    user_deadline >>

HideBeforeShow ==
    /\ \E s \in Shows, ok \in BOOLEAN :
        /\ show_at(s, "hide")
        /\ call' = hide_if_visible(call, s, ok)
    /\ UNCHANGED << now, monitor, toolbar, foreground, listener, capture, hotkey,
                    abandoned, hide_tasks, window, reveals, events, last_dispatch_at,
                    user_deadline >>

SpawnReveal ==
    /\ \E s \in Shows :
        /\ show_at(s, "spawn")
        /\ call' = spawn_reveal(call, s)
    /\ UNCHANGED << now, monitor, toolbar, foreground, listener, capture, hotkey,
                    abandoned, hide_tasks, window, reveals, events, last_dispatch_at,
                    user_deadline >>

RevealSleeps ==
    /\ \E s \in Shows :
        /\ show_at(s, "sleeping")
        /\ call' = reveal_sleep(call, s)
    /\ UNCHANGED << now, monitor, toolbar, foreground, listener, capture, hotkey,
                    abandoned, hide_tasks, window, reveals, events, last_dispatch_at,
                    user_deadline >>

RevealEmits ==
    /\ \E s \in Shows, ok \in BOOLEAN :
        /\ show_at(s, "emit")
        /\ call' = reveal_emit(call, s, ok)
    /\ UNCHANGED << now, monitor, toolbar, foreground, listener, capture, hotkey,
                    abandoned, hide_tasks, window, reveals, events, last_dispatch_at,
                    user_deadline >>

RevealShows ==
    /\ \E s \in Shows, ok \in BOOLEAN :
        /\ show_at(s, "show")
        /\ call' = reveal_show(call, s, ok)
    /\ UNCHANGED << now, monitor, toolbar, foreground, listener, capture, hotkey,
                    abandoned, hide_tasks, window, reveals, events, last_dispatch_at,
                    user_deadline >>

ShowInit ==
    /\ now = 0
    /\ monitor = [last_trigger_at |-> None, last_text |-> None,
                  last_mouse_position |-> <<0, 0>>, capture_in_progress |-> FALSE]
    /\ toolbar = [last_shown_at |-> None, last_text |-> None, enabled |-> TRUE,
                  temporary_disabled_until |-> None, ignored_apps |-> <<>>]
    /\ foreground = "notepad"
    /\ listener = "idle"
    /\ capture = NoCapture
    /\ hotkey = NoHotkey
    /\ abandoned = 0
    /\ hide_tasks = 0
    /\ window = NoWindow
    /\ reveals = {}
    /\ events = 0
    /\ last_dispatch_at = None
    /\ user_deadline = None
    /\ call \in ShowCalls

ShowNext ==
    \/ EnsureToolbarWindow
    \/ BuildToolbarWindow
    \/ SetPosition
    \/ HideBeforeShow
    \/ SpawnReveal
    \/ RevealSleeps
    \/ RevealEmits
    \/ RevealShows

ShowSpec == ShowInit /\ [][ShowNext]_vars

\* ------------------------------------------------------------------------
\* Properties
\* ------------------------------------------------------------------------
deadline == toolbar.temporary_disabled_until

\* C1: a left-button release processed while capture_in_progress is true
\* dispatches no capture task and leaves capture_in_progress and
\* last_trigger_at as they were
C1_NoDispatchWhileCapturing ==
    [][ (ReleaseGate \/ ReleaseTrigger) /\ monitor.capture_in_progress
        => /\ capture' = capture
           /\ listener' # "dispatched"
           /\ last_dispatch_at' = last_dispatch_at
           /\ monitor'.capture_in_progress = monitor.capture_in_progress
           /\ monitor'.last_trigger_at = monitor.last_trigger_at ]_vars

\* a release got past the debounce gate and was turned away by the guard while
\* the capture task was still running
C1_Witness ==
    /\ listener = "in_progress"
    /\ monitor.capture_in_progress
    /\ capture.pc # "none"

\* provider-chain executions running right now: the worker of the capture
\* task, the worker of the hotkey task, and the ones a timeout abandoned
ChainsRunning ==
    (IF capture.pc = "awaiting" THEN 1 ELSE 0)
    + (IF hotkey.pc = "awaiting" THEN 1 ELSE 0)
    + abandoned

\* C2: at most one provider-chain execution runs at a time, an execution
\* abandoned by the timeout counting until it returns
C2_OneCaptureInFlight == ChainsRunning <= 1

\* C3: every capture task dispatched by handle_event ends by resetting
\* capture_in_progress, whatever the worker did
C3_GuardEventuallyReset ==
    monitor.capture_in_progress ~> ~monitor.capture_in_progress

\* after a capture that timed out, a later release dispatched a capture again
C3_Witness ==
    /\ abandoned > 0
    /\ listener = "dispatched"
    /\ capture.pc = "awaiting"

\* C4: a release less than TRIGGER_DEBOUNCE_MS after the last dispatched
\* capture is rejected silently: no capture, no hide, MonitorState untouched
C4_Debounce ==
    [][ /\ listener = "gated"
        /\ listener' # "gated"
        /\ last_dispatch_at # None
        /\ now - Unwrap(last_dispatch_at) < TRIGGER_DEBOUNCE_MS
        => /\ listener' # "dispatched"
           /\ UNCHANGED << monitor, capture, hide_tasks, toolbar, window, reveals,
                           last_dispatch_at >> ]_vars

\* a release was rejected by the debounce gate after an earlier one dispatched
C4_Witness ==
    /\ listener = "debounced"
    /\ last_dispatch_at # None
    /\ now - Unwrap(last_dispatch_at) < TRIGGER_DEBOUNCE_MS

\* C5: the capture task compares its text with MonitorState.last_text; equal:
\* no show and last_text stays; different: last_text becomes the text and the
\* show sequence is called with it
C5_Dedupe ==
    [][ capture.pc = "dedupe" /\ capture'.pc # "dedupe"
        => IF monitor.last_text = capture.text
           THEN /\ capture'.pc = "ending"
                /\ capture'.position = None
                /\ UNCHANGED << monitor, toolbar, window, reveals >>
           ELSE /\ capture'.pc = "show"
                /\ capture'.text = capture.text
                /\ monitor'.last_text = capture.text ]_vars

\* a capture returned the text already in last_text and ended without a show
C5_Witness ==
    /\ capture.pc = "ending"
    /\ capture.text # None
    /\ capture.position = None
    /\ monitor.last_text = capture.text

\* C6: is_temporarily_disabled answers true and keeps the deadline before it,
\* answers false and clears it at or after it; time alone never changes it
C6_LazyExpiry ==
    [][ /\ (HotkeyTrigger \/ GetState \/ (CaptureShow /\ toolbar.enabled))
            /\ toolbar.enabled /\ deadline # None
           => IF now < Unwrap(deadline)
              THEN /\ toolbar'.temporary_disabled_until = deadline
                   /\ hotkey'.pc = "awaiting" /\ hotkey.pc = "none"
                        => hotkey'.temporarily_disabled
                   /\ capture.pc = "show" /\ capture'.pc = "ending" => ~capture'.shown
              ELSE /\ toolbar'.temporary_disabled_until = None
                   /\ hotkey'.pc = "awaiting" /\ hotkey.pc = "none"
                        => ~hotkey'.temporarily_disabled
        /\ now' # now => toolbar'.temporary_disabled_until = deadline ]_vars

\* the hotkey path read a deadline that had passed: answer false, field cleared
C6_Witness ==
    /\ hotkey.pc = "awaiting"
    /\ ~hotkey.temporarily_disabled
    /\ user_deadline # None
    /\ now >= Unwrap(user_deadline)
    /\ deadline = None

\* the throttle of show_toolbar_internal applies to `text`
Throttled(text) ==
    /\ toolbar.last_shown_at # None
    /\ now - Unwrap(toolbar.last_shown_at) < THROTTLE_MS
    /\ toolbar.last_text = Some(trim(text))

C8_MousePathStaysSuppressed ==
    [][ /\ capture.pc = "show" /\ capture'.pc # "show"
        /\ user_deadline # None
        /\ now < Unwrap(user_deadline)
        => ~capture'.shown ]_vars

\* C9: when the forced show returns, the deadline is the saved one if nobody
\* else wrote it during the call, and else the value the other actor wrote
\* (or nothing, when that value has passed and a read expired it)
C9_RestoreRespectsOtherWriters ==
    [][ hotkey.pc = "restore" /\ hotkey'.pc = "none"
        => LET kept == IF hotkey.other_write = None THEN hotkey.original
                       ELSE Unwrap(hotkey.other_write)
           IN  \/ toolbar'.temporary_disabled_until = kept
               \/ /\ toolbar'.temporary_disabled_until = None
                  /\ hotkey.other_write # None
                  /\ kept # None
                  /\ now >= Unwrap(kept) ]_vars

\* C10: a hotkey trigger with the feature disabled or the foreground
\* application ignored requests a hide and starts no capture, with or without
\* a deadline
C10_HotkeyCheckOrder ==
    [][ HotkeyTrigger /\ (~toolbar.enabled \/ foreground_ignored)
        => /\ hotkey'.pc = "none"
           /\ hide_tasks' = schedule_hide(hide_tasks) ]_vars

\* every gate of show_toolbar_internal lets `text` through
GatesPass(text) ==
    /\ trim(text) # <<>>
    /\ toolbar.enabled
    /\ ~(deadline # None /\ now < Unwrap(deadline))
    /\ ~foreground_ignored
    /\ ~Throttled(text)

\* what one call of show_toolbar_internal with `text` and the anchor `position`
\* does between this state and the next; `shown` is the caller's record of it
ShowContract(text, position, shown) ==
    /\ IF GatesPass(text)
       THEN /\ shown
            /\ toolbar'.last_text = Some(trim(text))
            /\ toolbar'.last_shown_at = Some(now)
            /\ window'.exists /\ ~window'.visible
            /\ \E scale_factor \in ScaleFactors :
                    window'.position = toolbar_position(position, scale_factor)
            /\ reveal_task(text, now) \in reveals'
       ELSE /\ ~shown
            /\ window' = window
            /\ reveals' = reveals
            /\ toolbar'.last_text = toolbar.last_text
            /\ toolbar'.last_shown_at = toolbar.last_shown_at
    \* the order of the checks: a disabled feature or a running deadline ends
    \* the call with the state untouched; a passed deadline is cleared before
    \* the ignored-application check
    /\ ~toolbar.enabled => toolbar' = toolbar
    /\ toolbar.enabled /\ deadline # None /\ now < Unwrap(deadline) => toolbar' = toolbar
    /\ toolbar.enabled /\ deadline # None /\ now >= Unwrap(deadline)
            => toolbar'.temporary_disabled_until = None

\* C11: show_toolbar_internal runs the window show sequence and records
\* last_text and last_shown_at only if the feature is enabled, not temporarily
\* disabled, the foreground application not ignored and the throttle does not
\* apply, checked in this order; a failing check leaves the window, last_text
\* and last_shown_at as they were
C11_ShowGates ==
    [][ /\ CaptureShow => ShowContract(Unwrap(capture.text), Unwrap(capture.position),
                                       capture'.shown)
        /\ HotkeyShow => ShowContract(Unwrap(hotkey.text), hotkey.position,
                                      hotkey'.shown) ]_vars

\* the show of the capture task ended at the ignored-application gate
C11_Witness ==
    /\ capture.pc = "ending"
    /\ capture.position # None
    /\ ~capture.shown
    /\ toolbar.enabled
    /\ deadline = None
    /\ foreground_ignored
    /\ toolbar.last_text = None
    /\ ~window.exists

\* the gates of show_toolbar_internal that come before the throttle let the
\* request through
EarlierGatesPass(text) ==
    /\ trim(text) # <<>>
    /\ toolbar.enabled
    /\ ~(deadline # None /\ now < Unwrap(deadline))
    /\ ~foreground_ignored

\* what the throttle does to one show request with `text`
ThrottleContract(text, shown) ==
    /\ /\ toolbar.last_text = Some(trim(text))
       /\ toolbar.last_shown_at # None
       /\ now - Unwrap(toolbar.last_shown_at) < THROTTLE_MS
       => /\ ~shown
          /\ toolbar'.last_shown_at = toolbar.last_shown_at
          /\ toolbar'.last_text = toolbar.last_text
    /\ /\ EarlierGatesPass(text)
       /\ \/ toolbar.last_text # Some(trim(text))
          \/ toolbar.last_shown_at = None
          \/ now - Unwrap(toolbar.last_shown_at) >= THROTTLE_MS
       => /\ shown
          /\ toolbar'.last_shown_at = Some(now)

\* C12: a show request with the text of the last show, less than THROTTLE_MS
\* after it, is suppressed; a request with another text, or THROTTLE_MS or
\* more after it, or after a hide, is not stopped by the throttle
C12_Throttle ==
    [][ /\ CaptureShow => ThrottleContract(Unwrap(capture.text), capture'.shown)
        /\ HotkeyShow => ThrottleContract(Unwrap(hotkey.text), hotkey'.shown)
        /\ HideToolbar => /\ toolbar'.last_shown_at = None
                          /\ toolbar'.last_text = None ]_vars

\* the show of the capture task was stopped by the throttle, nothing else
C12_Witness ==
    /\ capture.pc = "ending"
    /\ capture.position # None
    /\ ~capture.shown
    /\ toolbar.enabled
    /\ deadline = None
    /\ user_deadline = None
    /\ ~foreground_ignored
    /\ toolbar.last_text = capture.text
    /\ toolbar.last_shown_at # None
    /\ now - Unwrap(toolbar.last_shown_at) < THROTTLE_MS

\* C13: a capture of the mouse path that gives no text (the chain returns
\* nothing, the worker panics, the timeout fires) requests a hide, never
\* reaches the show sequence and leaves MonitorState.last_text as it was
C13_FailedCaptureHides ==
    [][ /\ CaptureTimeout => capture'.text = None
        /\ capture.pc = "awaiting" /\ capture'.pc # "awaiting" /\ capture'.text = None
           => /\ hide_tasks' = schedule_hide(hide_tasks)
              /\ hide_tasks' > 0
              /\ capture'.pc = "ending"
              /\ monitor' = monitor
              /\ toolbar' = toolbar
              /\ window' = window
              /\ reveals' = reveals
        /\ capture.pc = "ending" /\ capture.text = None /\ capture' # capture
           => /\ capture'.pc = "none"
              /\ monitor'.last_text = monitor.last_text
              /\ toolbar' = toolbar
              /\ window' = window
              /\ reveals' = reveals ]_vars

\* the timeout of the capture task fired and the task is about to end
C13_Witness ==
    /\ capture.pc = "ending"
    /\ capture.text = None
    /\ now >= capture.started_at + CAPTURE_TIMEOUT_MS
    /\ abandoned > 0
    /\ hide_tasks > 0
    /\ monitor.capture_in_progress

\* what the providers of the running call return, in list order
ProviderResults == [i \in 1..Len(call.run) |-> provider_capture(call.run[i])]

\* C14: capture_with_providers calls the providers in list order, each at most
\* once, returns the first Some without calling a later provider, and returns
\* None exactly when every provider returned None (an empty list included)
C14_FirstProviderWins ==
    call.fn = "capture_with_providers"
    => LET successes == {i \in 1..Len(call.run) : ProviderResults[i] # None}
       IN  /\ call.called = [i \in 1..Len(call.called) |-> i]
           /\ call.pc = "loop" => /\ Len(call.called) = call.i - 1
                                  /\ \A i \in 1..Len(call.called) : ProviderResults[i] = None
           /\ call.pc = "returned"
              => /\ IF successes = {}
                    THEN /\ call.result = None
                         /\ Len(call.called) = Len(call.run)
                    ELSE LET first == CHOOSE i \in successes : \A j \in successes : i <= j
                         IN  /\ call.result = ProviderResults[first]
                             /\ Len(call.called) = first
                 /\ call.result = None <=> \A i \in 1..Len(call.run) : ProviderResults[i] = None
                 /\ capture_with_providers(call.run).result = call.result
                 /\ capture_with_providers(call.run).calls = Len(call.called)

\* the first of two providers gave a text and the second was never called
C14_Witness ==
    /\ call.fn = "capture_with_providers"
    /\ call.pc = "returned"
    /\ Len(call.run) = 2
    /\ ProviderResults[2] # None
    /\ ProviderResults[2] # ProviderResults[1]
    /\ call.called = <<1>>
    /\ call.result = ProviderResults[1]

\* `inner` is `text` without its leading and trailing whitespace
IsTrimOf(inner, text) ==
    IF \A i \in 1..Len(text) : is_whitespace(text[i])
    THEN inner = <<>>
    ELSE \E i \in 1..Len(text), j \in 1..Len(text) :
            /\ i <= j
            /\ inner = SubSeq(text, i, j)
            /\ ~is_whitespace(text[i])
            /\ ~is_whitespace(text[j])
            /\ \A k \in 1..Len(text) : (k < i \/ k > j) => is_whitespace(text[k])

\* C15: normalize_selection returns None for an input with fewer than
\* MIN_TEXT_LENGTH non-whitespace characters and else the input without its
\* leading and trailing whitespace; applied to its own output it returns it
C15_Normalize ==
    call.fn = "normalize_selection" /\ call.pc = "returned"
    => /\ IF Cardinality({i \in 1..Len(call.text) : ~is_whitespace(call.text[i])}) < 2
          THEN call.result = None
          ELSE /\ call.result # None
               /\ IsTrimOf(Unwrap(call.result), call.text)
       /\ call.round = 2 => call.result = call.first

\* a text with whitespace before and after it came back trimmed, and came
\* back unchanged the second time
C15_Witness ==
    /\ call.fn = "normalize_selection"
    /\ call.pc = "returned"
    /\ call.round = 2
    /\ call.input = <<"\t", "a", "b", " ">>
    /\ call.first = Some(<<"a", "b">>)
    /\ call.result = call.first

\* `p` occurs in `s` as a run of consecutive characters
IsSubstring(p, s) ==
    \E i \in 1..(Len(s) + 1), j \in 0..Len(s) : SubSeq(s, i, j) = p

\* C16: should_ignore_app is true exactly when the trimmed, lowercased
\* identifier is not empty and some stored pattern occurs in it; "notepad"
\* ignores notepad.exe and notepadplusplus.exe, an empty list ignores nothing
C16_IgnoreIsContainment ==
    call.fn = "should_ignore_app" /\ call.pc = "returned"
    => LET candidate == to_lowercase(trim(call.identifier))
           patterns == call.state.ignored_apps
       IN  /\ call.result <=> /\ candidate # <<>>
                              /\ \E i \in 1..Len(patterns) : IsSubstring(patterns[i], candidate)
           /\ \A i \in 1..Len(patterns) : patterns[i] # <<>>
           /\ patterns = <<>> => ~call.result
           /\ /\ patterns = << <<"n", "o", "t", "e", "p", "a", "d">> >>
              /\ call.identifier \in
                    { <<"n", "o", "t", "e", "p", "a", "d", ".", "e", "x", "e">>,
                      <<"n", "o", "t", "e", "p", "a", "d", "p", "l", "u", "s", "p", "l",
                        "u", "s", ".", "e", "x", "e">> }
              => call.result

\* "notepadplusplus.exe" is ignored for the pattern stored from " NotePad "
C16_Witness ==
    /\ call.fn = "should_ignore_app"
    /\ call.pc = "returned"
    /\ call.apps = << <<" ", "N", "o", "t", "e", "P", "a", "d", " ">> >>
    /\ call.state.ignored_apps = << <<"n", "o", "t", "e", "p", "a", "d">> >>
    /\ call.identifier = <<"n", "o", "t", "e", "p", "a", "d", "p", "l", "u", "s", "p", "l",
                           "u", "s", ".", "e", "x", "e">>
    /\ call.result

\* C17: the window position is x = max(0, cx - 80*s/2), y = max(0, cy - 35*s
\* - 10*s), each rounded to the nearest integer (halves upwards, the values
\* being non-negative), and no coordinate is negative
C17_PositionClamped ==
    call.fn = "toolbar_position" /\ call.pc = "returned"
    => LET cx == call.position[1]
           cy == call.position[2]
           s == call.scale_factor
           \* the exact values, in eighths and in quarters of a pixel
           exact_x == Max(0, 8 * cx - 80 * s)
           exact_y == Max(0, 4 * cy - 35 * s - 10 * s)
           x == call.result[1]
           y == call.result[2]
       IN  /\ x >= 0
           /\ y >= 0
           /\ 8 * x - 4 <= exact_x /\ exact_x < 8 * x + 4
           /\ 4 * y - 2 <= exact_y /\ exact_y < 4 * y + 2

\* cursor (41, 200) at scale 1.5: x = 41 - 60 clamps to 0, y = 200 - 67.5
\* rounds to 133
C17_Witness ==
    /\ call.fn = "toolbar_position"
    /\ call.pc = "returned"
    /\ call.position = <<41, 200>>
    /\ call.scale_factor = 6
    /\ call.result = <<0, 133>>

\* C18: hide_toolbar_internal always clears last_text and last_shown_at, also
\* when the window does not exist or window.hide() fails, and touches nothing
\* else of ToolbarState; run on a state it has already cleared it changes
\* nothing of it
C18_HideAlwaysClears ==
    [][ HideToolbar
        => /\ toolbar'.last_text = None
           /\ toolbar'.last_shown_at = None
           /\ toolbar'.enabled = toolbar.enabled
           /\ toolbar'.temporary_disabled_until = toolbar.temporary_disabled_until
           /\ toolbar'.ignored_apps = toolbar.ignored_apps
           /\ window'.last_hide \in {"no_window", "failed", "hidden"}
           /\ window'.last_hide = "no_window" <=> ~window.exists
           /\ window'.exists = window.exists
           /\ window'.last_hide # "hidden" => window'.visible = window.visible
           /\ window'.last_hide = "hidden" => ~window'.visible
           /\ toolbar.last_text = None /\ toolbar.last_shown_at = None
                => toolbar' = toolbar ]_vars

\* a hide whose window.hide() failed: the window is still visible, the two
\* fields are cleared
C18_Witness ==
    /\ window.last_hide = "failed"
    /\ window.visible
    /\ reveals = {}
    /\ hide_tasks = 0
    /\ toolbar.last_text = None
    /\ toolbar.last_shown_at = None

C20_ListenerRetries ==
    /\ [][ /\ listening /\ ~listening' => call'.pc = "sleeping" /\ call'.slept = 0
           /\ call.pc = "sleeping" /\ call'.pc # "sleeping"
              => call.slept >= LISTENER_RETRY_DELAY_MS /\ call'.pc = "starting"
           /\ call.pc = "starting" /\ call'.pc # "starting" => listening' ]_vars
    /\ (call.pc = "sleeping") ~> listening

\* the listener was installed again after listen() had returned an error
C20_Witness ==
    /\ listening
    /\ call.attempt = 2
    /\ call.last_exit = "err"

\* C21: on every platform a listener that failed to install or has exited is
\* eventually started again
C21_ListenerRestarts ==
    (call.pc \in {"sleeping", "ended"}) ~> (listening \/ pumping)

\* C22: capture_in_progress is true exactly while the capture task dispatched
\* by handle_event has not ended; it is set only by a release that passed all
\* gates and cleared only by the end of that task, once
C22_GuardTracksTask ==
    /\ [](monitor.capture_in_progress <=> capture.pc # "none")
    /\ [][ /\ ~monitor.capture_in_progress /\ monitor'.capture_in_progress
              \* "gated": the release found the feature on and another
              \* application in front when it read them
              => /\ listener = "gated" /\ listener' = "dispatched"
                 /\ ~debounced(monitor, now)
                 /\ capture.pc = "none" /\ capture'.pc = "awaiting"
           /\ monitor.capture_in_progress /\ ~monitor'.capture_in_progress
              => capture.pc = "ending" /\ capture'.pc = "none"
           /\ capture.pc # "none" /\ capture'.pc = "none"
              => monitor.capture_in_progress /\ ~monitor'.capture_in_progress ]_vars

\* the flag is set while the task is at its show step
C22_Witness ==
    /\ monitor.capture_in_progress
    /\ capture.pc = "show"
    /\ listener = "dispatched"

C24_MouseMoveFrame ==
    [][ MouseMove
        => /\ \/ monitor' = monitor
              \/ /\ monitor'.last_mouse_position \in CursorPositions
                 /\ monitor' = [monitor EXCEPT !.last_mouse_position =
                                                  monitor'.last_mouse_position]
           /\ monitor'.last_trigger_at = monitor.last_trigger_at
           /\ monitor'.last_text = monitor.last_text
           /\ monitor'.capture_in_progress = monitor.capture_in_progress
           /\ UNCHANGED << toolbar, capture, hotkey, listener, hide_tasks, window,
                           reveals, last_dispatch_at, abandoned, now >> ]_vars

\* the pointer moved while a capture task was waiting for its worker, after
\* the release that dispatched it had stamped last_trigger_at
C24_Witness ==
    /\ monitor.last_mouse_position # <<0, 0>>
    /\ monitor.capture_in_progress
    /\ monitor.last_trigger_at # None
    /\ capture.pc = "awaiting"

\* C25: handle_event never runs the provider chain: a dispatching release
\* returns with the task waiting and no result, a result exists only once the
\* worker of a waiting task has returned, and a task is cut off from its
\* worker CAPTURE_TIMEOUT_MS after its start
C25_ChainOnlyInWorker ==
    /\ [](capture.pc = "awaiting" => capture.text = None)
    /\ [][ /\ (MouseMove \/ ReleaseGate \/ ReleaseTrigger)
              => /\ capture'.text = capture.text
                 /\ capture' # capture
                    => /\ listener' = "dispatched"
                       /\ capture' = [NoCapture EXCEPT !.pc = "awaiting",
                                                       !.started_at = now,
                                                       !.released_over =
                                                           monitor.last_mouse_position]
           /\ capture.text = None /\ capture'.text # None
              => /\ capture.pc = "awaiting"
                 /\ capture'.text \in WorkerOutcomes
                 /\ listener' = listener
           /\ CaptureTimeout
              => /\ now' >= capture.started_at + CAPTURE_TIMEOUT_MS
                 /\ capture'.text = None ]_vars

\* the listener handled a further release while the task dispatched by an
\* earlier one was still waiting for its worker
C25_Witness ==
    /\ capture.pc = "awaiting"
    /\ capture.text = None
    /\ listener \in {"debounced", "in_progress", "own_window"}
    /\ events >= 2

\* C26: what an abandoned provider call returns after the timeout is dropped:
\* its return writes no last_text, starts no show and neither clears nor sets
\* capture_in_progress, whether or not a later capture is running
C26_AbandonedResultDiscarded ==
    [][ AbandonedReturns
        => /\ monitor'.last_text = monitor.last_text
           /\ monitor'.capture_in_progress = monitor.capture_in_progress
           /\ monitor' = monitor
           /\ UNCHANGED << toolbar, capture, hotkey, window, reveals, hide_tasks,
                           listener, last_dispatch_at >> ]_vars

\* the only event so far was a release that dispatched a capture; the capture
\* timed out, its task ended with no text, and the abandoned worker has
\* returned since
C26_Witness ==
    /\ events = 1
    /\ last_dispatch_at # None
    /\ now >= Unwrap(last_dispatch_at) + CAPTURE_TIMEOUT_MS
    /\ abandoned = 0
    /\ capture.pc = "none"
    /\ monitor.last_text = None
    /\ ~monitor.capture_in_progress

\* C27: MonitorState.last_text holds the most recently delivered capture: once
\* the completion step has stored a text T there, the show sequence for T runs
\* and is not turned away by the enabled, temporary-disable, ignored-app or
\* throttle gate
C27_LastTextDelivered ==
    [][ /\ capture.pc = "show"
        /\ capture'.pc # "show"
        /\ monitor.last_text = capture.text
        => /\ capture'.shown
           /\ toolbar'.last_text = Some(trim(Unwrap(capture.text))) ]_vars

\* C28: a left-button release while the host application's own main window is
\* focused dispatches no capture, requests no hide and leaves MonitorState
\* unchanged
C28_OwnWindowRelease ==
    [][ ReleaseGate /\ foreground = "host"
        => /\ listener' # "gated"
           /\ hide_tasks' = hide_tasks
           /\ monitor' = monitor
           /\ capture' = capture
           /\ last_dispatch_at' = last_dispatch_at ]_vars

\* C28 amended: ... with the feature enabled; the feature switch is read
\* first, so with the feature disabled the same release requests the hide of
\* the disabled branch; in both cases no capture is dispatched and
\* MonitorState is unchanged
C28_OwnWindowReleaseWhenEnabled ==
    [][ ReleaseGate /\ foreground = "host"
        => /\ IF toolbar.enabled
              THEN /\ listener' \in {"own_window", "toolbar_busy"}
                   /\ hide_tasks' = hide_tasks
              ELSE \/ /\ listener' = "disabled"
                      /\ hide_tasks' = schedule_hide(hide_tasks)
                   \/ /\ listener' = "toolbar_busy"
                      /\ hide_tasks' = hide_tasks
           /\ listener' = "toolbar_busy" => ToolbarLockContended
           /\ monitor' = monitor
           /\ capture' = capture
           /\ toolbar' = toolbar
           /\ last_dispatch_at' = last_dispatch_at ]_vars

\* the host's main window was in front, the feature on, and the release
\* returned at the own-window check with nothing dispatched and no hide
C28_Witness ==
    /\ listener = "own_window"
    /\ foreground = "host"
    /\ toolbar.enabled
    /\ hide_tasks = 0
    /\ capture.pc = "none"
    /\ monitor.last_trigger_at = None
    /\ ~monitor.capture_in_progress

\* the mutexes thread t holds, and the mutex it is blocked on
held_by(t) == {m \in Mutexes : call.holder[m] = Some(t)}
blocked_on(t) ==
    IF at(t, "lock") /\ call.holder[instruction(t)[2]] # None
    THEN Some(instruction(t)[2]) ELSE None

\* C29: no thread holds the MonitorState and the ToolbarState mutex at the
\* same time, no thread holds either at an await point, and a thread blocked
\* on a mutex waits for a holder that is itself not blocked, so the listener,
\* the capture task, the hotkey task, the commands and the hide task cannot
\* deadlock on the two locks
C29_NoNestedLocks ==
    \A t \in Threads :
        /\ Cardinality(held_by(t)) <= 1
        /\ at(t, "await") => held_by(t) = {}
        /\ ~running(t) => held_by(t) = {}
        /\ at(t, "lock") \/ at(t, "try_lock") => held_by(t) = {}
        /\ blocked_on(t) # None
           => \E u \in Threads \ {t} :
                /\ call.holder[Unwrap(blocked_on(t))] = Some(u)
                /\ at(u, "unlock")
                /\ blocked_on(u) = None

\* both mutexes are held, by different threads, while the hotkey task is
\* blocked on ToolbarState and the hide task is at its await point
C29_Witness ==
    /\ locking
    /\ call.holder["monitor"] = Some("listener")
    /\ call.holder["toolbar"] = Some("capture")
    /\ blocked_on("hotkey") = Some("toolbar")
    /\ at("hide", "await")

\* C30: capture_text_for_hotkey runs the provider chain first and reads the
\* clipboard only when the chain returned nothing; what it takes from the
\* clipboard is what normalize_selection would return for the clipboard's
\* text (trimmed, at least MIN_TEXT_LENGTH non-whitespace characters); the
\* chain of the mouse path returns None when no provider has a text,
\* whatever the clipboard holds
C30_ClipboardFallback ==
    /\ call.fn = "capture_text_for_hotkey"
       => LET chain == capture_with_providers(call.run).result
              accepted == IF call.clip = None THEN None
                          ELSE normalize_selection(Unwrap(call.clip))
          IN  /\ call.pc = "chain" => ~call.clipboard_read /\ call.result = None
              /\ call.pc = "clipboard" => chain = None /\ ~call.clipboard_read
              /\ call.pc = "returned"
                 => /\ call.clipboard_read <=> chain = None
                    /\ chain # None => call.result = chain
                    /\ chain = None => call.result = accepted
                    /\ call.result # None /\ call.clipboard_read
                       => /\ Unwrap(call.result) = trim(Unwrap(call.clip))
                          /\ non_whitespace_count(Unwrap(call.result))
                                >= MIN_TEXT_LENGTH
                    /\ call.result = capture_text_for_hotkey(call.run, call.clip)
    /\ call.fn = "capture_with_providers" /\ call.pc = "returned"
       => /\ call.result = capture_with_providers(call.run).result
          /\ (\A i \in 1..Len(call.run) : provider_capture(call.run[i]) = None)
             => call.result = None

\* no provider had a text, the clipboard held " ab\t", and the call returned
\* the trimmed clipboard text
C30_Witness ==
    /\ call.fn = "capture_text_for_hotkey"
    /\ call.pc = "returned"
    /\ call.clipboard_read
    /\ capture_with_providers(call.run).result = None
    /\ call.clip = Some(<<" ", "a", "b", "\t">>)
    /\ call.result = Some(<<"a", "b">>)

\* the nodes the search may test: descendants of the start element at most
\* UIA_MAX_DESCENDANT_DEPTH levels below it
within_depth(node) == Len(node) \in 1..UIA_MAX_DESCENDANT_DEPTH

\* C31: a call of search_descendants_for_text_pattern tests at most
\* UIA_MAX_DESCENDANT_NODES nodes, none deeper than UIA_MAX_DESCENDANT_DEPTH
\* below the start element, always returns, and returns None when the node
\* ceiling is passed or when only nodes below the depth limit have a pattern
C31_SearchBounded ==
    /\ [](searching
          => /\ call.tested <= UIA_MAX_DESCENDANT_NODES
             /\ call.visited <= UIA_MAX_DESCENDANT_NODES + 1
             /\ call.deepest <= UIA_MAX_DESCENDANT_DEPTH
             /\ \A i \in 1..Len(call.queue) :
                    Len(call.queue[i]) < UIA_MAX_DESCENDANT_DEPTH
             /\ call.pc = "returned"
                => /\ call.visited > UIA_MAX_DESCENDANT_NODES => call.result = None
                   /\ (\A node \in call.tree.pattern : ~within_depth(node))
                      => call.result = None
                   /\ call.result # None
                      => /\ Unwrap(call.result) \in call.tree.pattern
                         /\ within_depth(Unwrap(call.result)))
    /\ searching ~> (searching /\ call.pc = "returned")

\* the search tested UIA_MAX_DESCENDANT_NODES nodes, met one more, and gave
\* up with None although that node had a pattern
C31_Witness ==
    /\ searching
    /\ call.pc = "returned"
    /\ call.visited = UIA_MAX_DESCENDANT_NODES + 1
    /\ call.tested = UIA_MAX_DESCENDANT_NODES
    /\ call.tree.pattern = { <<Wide>> }
    /\ call.result = None

\* C32: extract_selection_from_edit returns text only when the reported
\* offsets satisfy start < end and end <= buffer length, returns None for
\* any other offsets, an end beyond the buffer length included, and never
\* slices outside the buffer
C32_OffsetsValidated ==
    call.fn = "extract_selection_from_edit" /\ call.pc = "returned"
    \* the buffer length taken at its largest: the allocated text_length + 1
    => /\ call.result # None
          => call.start < call.end /\ call.end <= call.buffer_len
       /\ call.end > call.buffer_len => call.result = None
       /\ call.slice_end <= call.buffer_len

\* C32 amended: the offsets are clamped, not validated: end is cut down to
\* the number of units copied and start to that end; text is returned only
\* when start < end and start lies inside the copied text, and it is the
\* copied text from start to min(end, copied); an end beyond the buffer
\* length therefore yields the text up to the end of the buffer; the slice
\* never leaves the buffer
C32_OffsetsClamped ==
    call.fn = "extract_selection_from_edit" /\ call.pc = "returned"
    => LET copied == Min(Len(call.content), call.text_length)
           last == Min(call.end, copied)
       IN  /\ call.result # None
              => /\ call.start < call.end
                 /\ call.start < copied
                 /\ Unwrap(call.result) = SubSeq(call.content, call.start + 1, last)
                 /\ valid_utf16(Unwrap(call.result))
           /\ call.start >= call.end \/ call.start >= copied
              => call.result = None
           /\ call.start < call.end /\ call.start < copied
                /\ valid_utf16(SubSeq(call.content, call.start + 1, last))
              => call.result # None
           /\ call.slice_start <= call.slice_end
           /\ call.slice_end <= call.copied
           /\ call.copied < call.buffer_len \/ call.buffer_len = 0

\* EM_GETSEL reported a selection ending beyond the text, and the function
\* returned the text from start to the end of the buffer
C32_Witness ==
    /\ call.fn = "extract_selection_from_edit"
    /\ call.pc = "returned"
    /\ call.start = 1
    /\ call.end > call.copied
    /\ call.content = <<"a", "b", "a">>
    /\ call.result = Some(<<"b", "a">>)

\* the pcs of a show after its set_position, after its hide, after its emit
AfterPosition == {"hide", "spawn", "sleeping", "emit", "show", "done"}
AfterHide == {"spawn", "sleeping", "emit", "show", "done"}
AfterEmit == {"show", "done"}

\* C33: for each show that passes the gates: the window position is set, the
\* window is hidden if it was visible, then after REVEAL_DELAY_MS exactly one
\* "toolbar-text-selected" event with the trimmed text is emitted, then the
\* window is shown; a show never makes the window visible before its
\* position has been set
C33_ShowOrder ==
    /\ [](showing
          => \A s \in Shows :
                LET show == call.shows[s]
                IN  /\ show.pc \in AfterPosition => show.positioned = "set"
                    /\ show.pc \in AfterHide => show.hid \in {"not_visible", "hidden"}
                    /\ show.pc \in AfterEmit
                       => show.emitted = 1 /\ show.slept = REVEAL_DELAY_MS)
    /\ [][ showing /\ ~call.window.visible /\ call'.window.visible
           => \E s \in Shows :
                /\ call.shows[s].pc = "show" /\ call'.shows[s].pc = "done"
                /\ call.shows[s].positioned = "set" ]_vars

\* C33 amended: the calls are made in this order, each at most once per show:
\* set_position, hide if the window is visible, after REVEAL_DELAY_MS one emit
\* of the trimmed text, then show; the result of each call is ignored, so after
\* a failed set_position the window is still revealed, where it stood before
C33_ShowCallOrder ==
    /\ [](showing
          => \A s \in Shows :
                LET show == call.shows[s]
                IN  /\ show.pc \in AfterPosition <=> show.positioned # "no"
                    /\ show.pc \in AfterHide <=> show.hid # "no"
                    /\ show.pc \in {"emit", "show", "done"}
                       <=> show.slept = REVEAL_DELAY_MS
                    /\ show.emitted = IF show.pc \in AfterEmit THEN 1 ELSE 0
                    /\ show.pc = "failed" => show.positioned = "no")
    /\ [][ showing
           => /\ ~call.window.visible /\ call'.window.visible
                 => \E s \in Shows :
                      /\ call.shows[s].pc = "show" /\ call'.shows[s].pc = "done"
                      /\ call.shows[s].positioned \in {"set", "failed"}
                      /\ call.shows[s].emitted = 1
              /\ call'.window.text # call.window.text
                 => \E s \in Shows :
                      /\ call.shows[s].pc = "emit" /\ call'.shows[s].pc = "show"
                      /\ call'.window.text = Some(trim(call.shows[s].text))
              /\ call'.window.position # call.window.position
                 => \E s \in Shows :
                      /\ call.shows[s].pc = "position"
                      /\ call'.window.position =
                            toolbar_position(call.shows[s].position, ScaleDen) ]_vars

\* the mouse show ran to its end after the hotkey show: it set the position,
\* hid the window the hotkey show had revealed, emitted "ab" and showed it
C33_Witness ==
    /\ showing
    /\ call.shows["mouse"].pc = "done"
    /\ call.shows["mouse"].positioned = "set"
    /\ call.shows["mouse"].hid = "hidden"
    /\ call.shows["mouse"].text = <<" ", "a", "b">>
    /\ call.window.text = Some(<<"a", "b">>)
    /\ call.window.position = toolbar_position(call.shows["mouse"].position, ScaleDen)
    /\ call.window.visible

\* C34: at most one window with the label "selection-toolbar" ever exists; the
\* first show that passes the gates creates it and every later show reuses
\* it, also when two shows run at the same time before it exists, and then
\* neither show fails
C34_SingleWindow ==
    showing
    => /\ call.window.created <= 1
       /\ call.window.exists <=> call.window.created = 1
       /\ \A s \in Shows :
            /\ call.shows[s].pc \in AfterPosition => call.window.exists
            /\ call.shows[s].error # "label"

\* a step of trigger_toolbar_from_hotkey or of the task it spawns
HotkeyStep ==
    \/ HotkeyTrigger
    \/ HotkeyCaptureReturns
    \/ HotkeyTimeout
    \/ HotkeyForceSave
    \/ HotkeyShow
    \/ HotkeyForceRestore

\* C35: the hotkey path neither reads nor writes MonitorState: none of its
\* steps changes it or the capture task, its anchor is a result of the
\* platform query, never the cached last_mouse_position, and when it has no
\* anchor (or no text) it requests a hide and shows nothing
C35_HotkeyIgnoresMonitor ==
    [][ HotkeyStep
        => /\ monitor' = monitor
           /\ capture' = capture
           /\ listener' = listener
           /\ last_dispatch_at' = last_dispatch_at
           /\ HotkeyCaptureReturns
              => \/ /\ hotkey'.pc = "force_save"
                    /\ hotkey'.text # None
                    /\ hotkey'.position \in CursorPositions
                    /\ hide_tasks' = hide_tasks
                 \/ /\ hotkey' = NoHotkey
                    /\ hide_tasks' = schedule_hide(hide_tasks)
                    /\ UNCHANGED << toolbar, window, reveals >>
           /\ HotkeyShow
              => /\ hotkey'.shown
                    = show_gate(toolbar, Unwrap(hotkey.text),
                                resolve_active_app_identifiers, now).pass
                 /\ hotkey'.shown
                    => window'.position \in
                         { toolbar_position(hotkey.position, scale_factor) :
                              scale_factor \in ScaleFactors } ]_vars

\* the hotkey show went through inside the debounce window of a release,
\* while that release's capture task was running, with the text the task had
\* just stored in MonitorState.last_text, and at an anchor that is not the
\* cached pointer position
C35_Witness ==
    /\ hotkey.pc = "restore"
    /\ hotkey.shown
    /\ monitor.capture_in_progress
    /\ capture.pc = "show"
    /\ debounced(monitor, now)
    /\ monitor.last_text = hotkey.text
    /\ hotkey.position # monitor.last_mouse_position

\* C36: once hide_toolbar_internal has hidden the window and no later show
\* passes the gates, the window does not become visible again: the reveal
\* task of an earlier show does not show it after the hide
C36_HideCancelsReveal ==
    \* last_shown_at = None: no show has passed the gates since the hide
    [][ /\ window.last_hide = "hidden"
        /\ toolbar.last_shown_at = None
        /\ ~window.visible
        => ~window'.visible \/ toolbar'.last_shown_at # None ]_vars

\* C37: MonitorState.last_text is written only by a mouse capture whose text
\* differs from it, and is never cleared, not by a hide either: a capture
\* that returns the text last_text holds is a duplicate and calls no show,
\* whatever happened to the toolbar in between
C37_LastTextOutlivesHide ==
    [][ /\ monitor'.last_text # monitor.last_text
           => /\ CaptureDedupe
              /\ capture.text # None
              /\ monitor.last_text # capture.text
              /\ monitor'.last_text = capture.text
        /\ (HideToolbar \/ HideCommand \/ SetEnabled \/ SetTemporaryDisabledUntil)
           => monitor'.last_text = monitor.last_text
        /\ CaptureDedupe /\ monitor.last_text = capture.text
           => /\ capture'.pc = "ending"
              /\ ~capture'.shown
              /\ UNCHANGED << monitor, toolbar, window, reveals >> ]_vars

\* the text was delivered and the toolbar hidden again; a second capture came
\* back with the same text and ended as a duplicate, with no show
C37_Witness ==
    /\ capture.pc = "ending"
    /\ capture.text # None
    /\ capture.position = None
    /\ monitor.last_text = capture.text
    /\ window.text = capture.text
    /\ window.last_hide = "hidden"
    /\ ~window.visible
    /\ toolbar.last_text = None
    /\ reveals = {}

\* C38: a release turned away by the debounce gate or by the in-progress
\* gate leaves MonitorState as it was; last_trigger_at changes only in the
\* step that dispatches a capture, so rejected releases never move the
\* debounce window
C38_RejectedReleaseFrame ==
    [][ /\ ReleaseTrigger /\ listener' \in {"debounced", "in_progress"}
           => /\ monitor' = monitor
              /\ capture' = capture
              /\ last_dispatch_at' = last_dispatch_at
        /\ monitor'.last_trigger_at # monitor.last_trigger_at
           => /\ listener = "gated" /\ listener' = "dispatched"
              /\ monitor'.last_trigger_at = Some(now)
              /\ capture.pc = "none" /\ capture'.pc = "awaiting"
        /\ ReleaseTrigger /\ listener' = "dispatched" /\ monitor.last_trigger_at # None
           => now - Unwrap(monitor.last_trigger_at) >= TRIGGER_DEBOUNCE_MS ]_vars

\* a release after the debounce window was turned away by the guard, and
\* last_trigger_at is still the time of the dispatch before it
C38_Witness ==
    /\ listener = "in_progress"
    /\ monitor.capture_in_progress
    /\ monitor.last_trigger_at # None
    /\ monitor.last_trigger_at = last_dispatch_at
    /\ now - Unwrap(monitor.last_trigger_at) >= TRIGGER_DEBOUNCE_MS

\* C39: the anchor of the mouse path is last_mouse_position as it is when the
\* capture result is processed; a pointer move that gets the lock while the
\* task is in flight changes it, and the show sequence is given that value,
\* not the position at the release
C39_AnchorReadAtDedupe ==
    [][ /\ CaptureDedupe /\ capture'.pc = "show"
           => capture'.position = Some(monitor.last_mouse_position)
        /\ CaptureShow /\ capture'.shown
           => /\ capture.position = capture'.position
              /\ \E scale_factor \in ScaleFactors :
                    window' = show_window(window, Unwrap(capture.position), scale_factor)
        /\ capture.pc \in {"awaiting", "dedupe"} /\ MouseMove
           => /\ capture' = capture
              /\ \/ monitor' = monitor
                 \/ /\ monitor'.last_mouse_position \in CursorPositions
                    /\ monitor'.last_mouse_position # monitor.last_mouse_position ]_vars

\* the pointer moved after the release, and the toolbar was shown with the
\* anchor of the later position
C39_Witness ==
    /\ capture.pc = "ending" /\ capture.shown
    /\ capture.position # None
    /\ Unwrap(capture.position) # capture.released_over
    /\ Unwrap(capture.position) = monitor.last_mouse_position
    /\ window.exists

\* C40: what set_ignored_apps stores holds only non-empty, trimmed, lowercase
\* strings; a list of blank entries only is stored as the empty list and
\* ignores no application, and an application is ignored only for a stored
\* non-empty pattern that its identifier contains
C40_IgnoredAppsNormalised ==
    /\ \A i \in 1..Len(toolbar.ignored_apps) :
          /\ toolbar.ignored_apps[i] # <<>>
          /\ trim(toolbar.ignored_apps[i]) = toolbar.ignored_apps[i]
          /\ to_lowercase(toolbar.ignored_apps[i]) = toolbar.ignored_apps[i]
    /\ call.fn = "should_ignore_app" /\ call.pc \in {"stored", "returned"}
       => /\ \A i \in 1..Len(call.state.ignored_apps) :
                /\ call.state.ignored_apps[i] # <<>>
                /\ trim(call.state.ignored_apps[i]) = call.state.ignored_apps[i]
                /\ to_lowercase(call.state.ignored_apps[i]) = call.state.ignored_apps[i]
                /\ \E j \in 1..Len(call.apps) :
                      call.state.ignored_apps[i] = to_lowercase(trim(call.apps[j]))
          /\ (\A j \in 1..Len(call.apps) : trim(call.apps[j]) = <<>>)
             => call.state.ignored_apps = <<>>
    /\ call.fn = "should_ignore_app" /\ call.pc = "returned"
       => /\ (\A j \in 1..Len(call.apps) : trim(call.apps[j]) = <<>>) => ~call.result
          /\ call.result
             => \E i \in 1..Len(call.state.ignored_apps) :
                   /\ call.state.ignored_apps[i] # <<>>
                   /\ contains(to_lowercase(trim(call.identifier)),
                               call.state.ignored_apps[i])

\* a list of two blank entries was stored and an application with a
\* non-empty identifier was then found not to be ignored
C40_Witness ==
    /\ call.fn = "should_ignore_app" /\ call.pc = "returned"
    /\ Len(call.apps) > 1
    /\ \A j \in 1..Len(call.apps) : trim(call.apps[j]) = <<>>
    /\ call.state.ignored_apps = <<>>
    /\ trim(call.identifier) # <<>>
    /\ ~call.result

====
